---- MODULE Spec2Model ----
(***************************************************************************)
(* Encrypted vault store (utils/encryptedStorage.js) and the part of the   *)
(* application controller (App.js) that drives it: unlock, lock, the       *)
(* encrypted persistence effect and the operations on the two note         *)
(* collections.                                                            *)
(*                                                                         *)
(* Cryptography is modelled symbolically: a PBKDF2 key is the pair         *)
(* (passphrase, salt), an AES-GCM ciphertext is the term (key, iv,         *)
(* plaintext) and decryption succeeds exactly when key and iv match.       *)
(* crypto.getRandomValues is an ideal source: a value it returned is never *)
(* returned again.                                                         *)
(***************************************************************************)
EXTENDS Integers, Sequences, FiniteSets, TLC

\* ---------------------------------------------------------------- bounds
MaxSaves == 2
MaxUnlocks == 1
MaxClock == 2
MaxCreates == 1
MaxImports == 1
MaxForeign == 1
MaxTimers == 2

\* ------------------------------------------------------- JavaScript values
\* A numeric property that holds the value undefined / that is missing.
Undef == -1
Absent == -2
\* Marker of an array element that is not an object (null, a number, ...).
NotObject == -3

\* Number.isFinite(x)
IsFinite(x) == x >= 0

\* (x || 0) for a numeric property
OrZero(x) == IF x > 0 THEN x ELSE 0

\* A note object; tags is a sequence of strings.
MkNote(id, title, body, createdAt, updatedAt, pinned, deletedAt, reminderAt) ==
    [id |-> id, title |-> title, body |-> body, createdAt |-> createdAt,
     updatedAt |-> updatedAt, pinned |-> pinned, tags |-> <<>>,
     deletedAt |-> deletedAt, reminderAt |-> reminderAt]

\* An element of a parsed JSON array that is not an object.
NullEntry == MkNote("", "", "", NotObject, NotObject, FALSE, NotObject, NotObject)

IsObject(raw) == raw.createdAt # NotObject

\* The value of a collection argument that is not an array is the marker
\* NotArray in the field arr; an array carries its elements in items.
Arr(items) == [arr |-> TRUE, items |-> items]
NotArray == [arr |-> FALSE, items |-> <<>>]

\* Array.isArray(x) ? x : []
ArrOrEmpty(x) == IF x.arr THEN x.items ELSE <<>>

\* ------------------------------------------------------------------- JSON
\* JSON.stringify of one note: a property whose value is undefined is left
\* out of the text.
StringifyNote(n) ==
    [n EXCEPT !.deletedAt = IF @ = Undef THEN Absent ELSE @,
              !.reminderAt = IF @ = Undef THEN Absent ELSE @]

StringifyNotes(s) == [i \in 1..Len(s) |-> StringifyNote(s[i])]

\* A string handed to JSON.parse: kind "json" is well-formed text denoting
\* val, kind "bad" is text JSON.parse throws on, kind "none" is a missing
\* localStorage item (getItem returned null).
JsonText(v) == [kind |-> "json", val |-> v]

\* ----------------------------------------------------------------- crypto
\* A key derivation that leaves the passphrase out: the key depends on the
\* salt alone.
deriveKeyFromSaltOnly(passphrase, salt) == [kpass |-> "", ksalt |-> salt]

\* deriveAesKeyFromPassphrase: PBKDF2 is a deterministic function of
\* (passphrase, salt).
deriveAesKeyFromPassphrase(passphrase, salt) == [kpass |-> passphrase, ksalt |-> salt]

\* crypto.subtle.encrypt with AES-GCM: ciphertext and tag as a term.
AesGcmEncrypt(key, iv, pt) == [key |-> key, iv |-> iv, pt |-> pt]

\* A decryption whose tag does not cover the iv.
AesGcmVerifiesKeyOnly(key, iv, ct) == ct.key = key

\* crypto.subtle.decrypt with AES-GCM: the tag verifies only under the key
\* and iv of the encryption.
AesGcmVerifies(key, iv, ct) == ct.key = key /\ ct.iv = iv

bytesToBase64(b) == [b64 |-> b]
base64ToBytes(s) == s.b64

\* A document that leaves the trashed notes out.
VaultJsonActiveOnly(act, tr) ==
    [schemaVersion |-> 1,
     activeNotes |-> StringifyNotes(ArrOrEmpty(act)),
     trashedNotes |-> StringifyNotes(<<>>)]

\* The plaintext document of saveEncryptedNotes.
VaultJson(act, tr) ==
    [schemaVersion |-> 1,
     activeNotes |-> StringifyNotes(ArrOrEmpty(act)),
     trashedNotes |-> StringifyNotes(ArrOrEmpty(tr))]

\* encryptJsonToPayload, given the salt and iv it drew and the time it returns.
encryptJsonToPayload(passphrase, json, salt, iv, t) ==
    [schema |-> "enc_notes_v1",
     salt |-> bytesToBase64(salt),
     iv |-> bytesToBase64(iv),
     data |-> bytesToBase64(AesGcmEncrypt(deriveAesKeyFromPassphrase(passphrase, salt), iv, json)),
     updatedAt |-> t]

\* The value of a missing encrypted item.
NoPayload == encryptJsonToPayload("", VaultJson(NotArray, NotArray), 0, 0, 0)
NoItem == [kind |-> "none", val |-> NoPayload]

\* decryptPayloadToJson: the error it throws, or "" when it returns json.
decryptError(passphrase, payload) ==
    IF payload.schema # "enc_notes_v1" THEN "UnknownSchema"
    ELSE IF ~AesGcmVerifies(deriveAesKeyFromPassphrase(passphrase, base64ToBytes(payload.salt)),
                            base64ToBytes(payload.iv), base64ToBytes(payload.data))
         THEN "AuthenticationError"
         ELSE ""

decryptPayloadToJson(passphrase, payload) == base64ToBytes(payload.data).pt

\* ---------------------------------------------------------------- sorting
\* sortNotesPinnedFirst(a, b) and the trash comparator, as the sign of the
\* comparator's result.
CmpNotes(mode, a, b) ==
    IF mode = "pinned"
    THEN IF a.pinned # b.pinned
         THEN (IF a.pinned THEN -1 ELSE 1)
         ELSE OrZero(b.updatedAt) - OrZero(a.updatedAt)
    ELSE OrZero(b.deletedAt) - OrZero(a.deletedAt)

\* Position at which x goes into the sorted sequence s: after every element
\* that does not sort after it (Array.prototype.sort is stable).
RECURSIVE InsertPos(_, _, _, _)
InsertPos(mode, x, s, i) ==
    IF i > Len(s) THEN i
    ELSE IF CmpNotes(mode, s[i], x) > 0 THEN i
    ELSE InsertPos(mode, x, s, i + 1)

InsertSorted(mode, x, s) ==
    LET p == InsertPos(mode, x, s, 1)
    IN SubSeq(s, 1, p - 1) \o <<x>> \o SubSeq(s, p, Len(s))

RECURSIVE SortNotes(_, _)
SortNotes(mode, s) ==
    IF s = <<>> THEN <<>>
    ELSE InsertSorted(mode, s[Len(s)], SortNotes(mode, SubSeq(s, 1, Len(s) - 1)))

\* ------------------------------------------------------------------ state
VARIABLES
    enc,            \* localStorage item retro_notes_encrypted_v1
    legacyNotes,    \* localStorage item retro_notes_v1
    legacyTrash,    \* localStorage item retro_notes_trash_v1
    calls,          \* asynchronous store calls awaiting WebCrypto
    pc,             \* the continuation that runs next without interruption
    rng,            \* number of values crypto.getRandomValues has returned
    now,            \* Date.now()
    isUnlocked, passphrase, notes, trashedNotes, selectedId, view,
    unlockBusy, unlockError, error,
    idCount,        \* number of ids createId has returned
    saveLog,        \* history: the arguments of every saveEncryptedNotes call
    writeLog,       \* history: every setItem of the encrypted item, in order
    ret,            \* history: the last result a store call gave its caller
    unlockCount,    \* number of unlock attempts so far
    foreignWrites,  \* number of writes to the encrypted item by other programs
    reminders,      \* localStorage item retro_notes_reminders_v1, in key order
    timeouts,       \* the timers of window.setTimeout that are pending
    scheduledTimeouts,  \* the module's Map noteId -> timeoutId, as its entries
    timerCount,     \* number of timers window.setTimeout has created
    permission,     \* Notification.permission
    firing,         \* the reminder of the timer callback that is running
    shown,          \* history: every notification displayed, in order
    remRet,         \* history: the last call that set or cleared a reminder
    history,        \* localStorage items retro_notes_history_v1:<noteId>, by note id
    snapCount,      \* number of ids createSnapshotId has returned
    histRet,        \* history: the last call of an export of versionHistory.js
    draft,          \* the editor fields title and body
    lastPersistedRef,   \* lastPersistedRef.current
    autosaveTimers, \* the autosave timers of window.setTimeout that are pending
    autosaveTimerRef,   \* autosaveTimerRef.current
    autosaved       \* history: the autosave callbacks run, and what the last one closed over

storeVars == <<enc, legacyNotes, legacyTrash>>
appVars == <<isUnlocked, passphrase, notes, trashedNotes, selectedId, view,
             unlockBusy, unlockError, error, idCount>>
extVars == <<foreignWrites, autosaved>>
remVars == <<reminders, timeouts, scheduledTimeouts, timerCount, permission, firing,
             shown, remRet>>
histVars == <<history, snapCount, histRet>>
editVars == <<draft, lastPersistedRef, autosaveTimers, autosaveTimerRef>>
vars == <<enc, legacyNotes, legacyTrash, calls, pc, rng, now,
          isUnlocked, passphrase, notes, trashedNotes, selectedId, view,
          unlockBusy, unlockError, error, idCount,
          saveLog, writeLog, ret, unlockCount, foreignWrites,
          reminders, timeouts, scheduledTimeouts, timerCount, permission, firing,
          shown, remRet, history, snapCount, histRet,
          draft, lastPersistedRef, autosaveTimers, autosaveTimerRef, autosaved>>

Passphrases == {"k1", "k2"}

\* ------------------------------------------------- persisted initial data
LegacyItem(kind, items) == [kind |-> kind, val |-> items]
NoLegacy == LegacyItem("none", <<>>)

\* Notes as an earlier version of the application wrote them.
OldNote1 == MkNote("n1", "one", "", 1, 1, FALSE, Absent, Absent)
OldNote2 == MkNote("n2", "two", "", 1, 1, FALSE, 1, Absent)

\* The record a previous session persisted under passphrase k1.
OldPayload ==
    encryptJsonToPayload("k1", VaultJson(Arr(<<OldNote1>>), Arr(<<OldNote2>>)), 0, 0, 0)

InitialStorage ==
    { [enc |-> NoItem, ln |-> NoLegacy, lt |-> NoLegacy],
      [enc |-> NoItem, ln |-> LegacyItem("array", <<OldNote1>>),
                       lt |-> LegacyItem("array", <<OldNote2>>)],
      [enc |-> NoItem, ln |-> LegacyItem("array", <<OldNote1>>),
                       lt |-> LegacyItem("bad", <<>>)],
      [enc |-> JsonText(OldPayload), ln |-> NoLegacy, lt |-> NoLegacy] }

NoLegacyRead == [activeNotes |-> <<>>, trashedNotes |-> <<>>, hadLegacyData |-> FALSE]

Idle == [stage |-> "idle", caller |-> "", pass |-> "", sid |-> 0, wsid |-> 0,
         legacy |-> NoLegacyRead, lgN |-> NoLegacy, lgT |-> NoLegacy]

NoRet == [fn |-> "", caller |-> "", pass |-> "", ok |-> FALSE, err |-> "",
          activeNotes |-> <<>>, trashedNotes |-> <<>>, migrated |-> FALSE,
          sid |-> 0, wsid |-> 0, lgN |-> NoLegacy, lgT |-> NoLegacy, read |-> NoPayload]

NoReminder == [noteId |-> "", remindAt |-> Undef]

NoRemRet == [fn |-> "", noteId |-> "", remindAt |-> Undef, err |-> "", before |-> <<>>,
             ids |-> {}]

\* One snapshot, and one element of a stored history array.
Snap(id, createdAt, title, body) ==
    [id |-> id, createdAt |-> createdAt, title |-> title, body |-> body]

\* The result null of addNoteSnapshot.
NoSnap == Snap("", Undef, "", "")

\* No history item in localStorage.
NoHistories == [k \in {} |-> <<>>]

NoHistRet == [fn |-> "", noteId |-> "", cap |-> Undef, ret |-> NoSnap, err |-> ""]

\* The editor with no note in it, the baseline of the autosave for no note,
\* and the value null of autosaveTimerRef.current.
NoDraft == [title |-> "", body |-> ""]
NoBaseline == [noteId |-> "", title |-> "", body |-> ""]
NoTimer == [noteId |-> "", title |-> "", body |-> "", current |-> FALSE]
NoAutosave == [count |-> 0, noteId |-> "", title |-> "", body |-> ""]

\* The state after the first render, but for the items of localStorage.
InitSession ==
    /\ calls = {}
    /\ pc = Idle
    /\ rng = 0
    /\ now = 1
    /\ isUnlocked = FALSE
    /\ passphrase = ""
    /\ notes = <<>>
    /\ trashedNotes = <<>>
    /\ selectedId = ""
    /\ view = "notes"
    /\ unlockBusy = FALSE
    /\ unlockError = ""
    /\ error = ""
    /\ idCount = 0
    /\ saveLog = <<>>
    /\ writeLog = <<>>
    /\ ret = NoRet
    /\ unlockCount = 0
    /\ foreignWrites = 0
    /\ timeouts = {}
    /\ scheduledTimeouts = {}
    /\ timerCount = 0
    /\ permission = "default"
    /\ firing = NoReminder
    /\ shown = <<>>
    /\ remRet = NoRemRet
    /\ snapCount = 0
    /\ histRet = NoHistRet
    /\ draft = NoDraft
    /\ lastPersistedRef = NoBaseline
    /\ autosaveTimers = {}
    /\ autosaveTimerRef = NoTimer
    /\ autosaved = NoAutosave

InitMemory ==
    /\ \E s \in InitialStorage :
          /\ enc = s.enc
          /\ legacyNotes = s.ln
          /\ legacyTrash = s.lt
    /\ InitSession

Init == InitMemory /\ reminders = <<>> /\ history = NoHistories

\* ------------------------------------------------------ encryptedStorage.js
hasEncryptedPayload == enc.kind # "none"

hasLegacyUnencryptedNotes == legacyNotes.kind # "none" \/ legacyTrash.kind # "none"

\* readLegacyNotesFromLocalStorage: one try block around both JSON.parse calls.
readLegacyNotesFromLocalStorage ==
    IF legacyNotes.kind = "bad" \/ legacyTrash.kind = "bad"
    THEN NoLegacyRead
    ELSE [activeNotes |-> IF legacyNotes.kind = "array" THEN legacyNotes.val ELSE <<>>,
          trashedNotes |-> IF legacyTrash.kind = "array" THEN legacyTrash.val ELSE <<>>,
          hadLegacyData |-> hasLegacyUnencryptedNotes]

\* History: the save call that wrote the record now persisted (0: a previous
\* session, -1: there is no record).
WriterNow ==
    IF enc.kind = "none" THEN -1
    ELSE IF writeLog = <<>> THEN 0 ELSE writeLog[Len(writeLog)].sid

\* The two values randomBytes returns to one encryptJsonToPayload call.
SaltDrawn(r) == r + 1
IvDrawn(r) == r + 2

\* A save that reuses one salt and one iv for every record.
SaveEntryFixedNonce(caller, pass, act, tr) ==
    [caller |-> caller, pass |-> pass, activeNotes |-> act, trashedNotes |-> tr,
     json |-> VaultJson(act, tr),
     salt |-> 1, iv |-> 2,
     solo |-> ~\E c \in calls : c.kind = "save"]

\* saveEncryptedNotes up to its first await: the document is serialised and
\* salt and iv are drawn when the call is made.
SaveEntry(caller, pass, act, tr) ==
    [caller |-> caller, pass |-> pass, activeNotes |-> act, trashedNotes |-> tr,
     json |-> VaultJson(act, tr),
     salt |-> SaltDrawn(rng), iv |-> IvDrawn(rng),
     solo |-> ~\E c \in calls : c.kind = "save"]

SaveCall(caller, pass, legacy) ==
    [kind |-> "save", id |-> Len(saveLog) + 1, caller |-> caller, pass |-> pass,
     raw |-> NoPayload, wsid |-> WriterNow, legacy |-> legacy,
     lgN |-> legacyNotes, lgT |-> legacyTrash, view |-> ""]

DecryptCall(caller, pass) ==
    [kind |-> "decrypt", id |-> unlockCount + 1, caller |-> caller, pass |-> pass,
     raw |-> enc.val, wsid |-> WriterNow,
     legacy |-> NoLegacyRead, lgN |-> legacyNotes, lgT |-> legacyTrash, view |-> ""]

CanSave == Len(saveLog) < MaxSaves
CanUnlock == unlockCount < MaxUnlocks

\* The record a save call persists when its encryption has finished.
PayloadOf(c) ==
    LET e == saveLog[c.id]
    IN encryptJsonToPayload(e.pass, e.json, e.salt, e.iv, now)

\* A write that gives way to the record of a save called later: the save
\* ends, but the item is set only when no later save has written yet.
PersistIfNewest(c) ==
    /\ enc' = IF c.id > WriterNow THEN JsonText(PayloadOf(c)) ELSE enc
    /\ writeLog' = Append(writeLog, [sid |-> c.id, salt |-> bytesToBase64(saveLog[c.id].salt),
                                     iv |-> bytesToBase64(saveLog[c.id].iv),
                                     alone |-> saveLog[c.id].solo /\ Len(saveLog) = c.id])

\* localStorage.setItem(ENCRYPTED_STORAGE_KEY, JSON.stringify(payload))
PersistPayload(c) ==
    /\ enc' = JsonText(PayloadOf(c))
    /\ writeLog' = Append(writeLog, [sid |-> c.id, salt |-> enc'.val.salt, iv |-> enc'.val.iv,
                                     alone |-> saveLog[c.id].solo /\ Len(saveLog) = c.id])

\* How an in-flight save ends: encryption and setItem succeed, or setItem
\* throws (a rejection by WebCrypto leaves the same state behind).
SaveOutcomes == {"ok", "QuotaExceededError"}

\* Decrypted bytes that are not a vault document: text JSON.parse throws on,
\* the text of a JSON value that is no object, and the text of an object
\* that has neither activeNotes nor trashedNotes.
GarbageText == [text |-> "garbage"]
ScalarText == [text |-> "null"]
OtherObject == [schemaVersion |-> 1]

\* JSON.parse(json) returns, and what it returns is an object.
ParsesAsJson(doc) == "text" \notin DOMAIN doc \/ doc.text # "garbage"
ParsesToObject(doc) == "text" \notin DOMAIN doc

\* Array.isArray(parsed[f]) ? parsed[f] : []
ArrayField(doc, f) == IF f \in DOMAIN doc THEN doc[f] ELSE <<>>

\* unlockEncryptedNotes after decryption: the result for a payload read earlier.
UnlockResult(pass, payload) ==
    LET err == decryptError(pass, payload)
        doc == decryptPayloadToJson(pass, payload)
        failed(e) == [ok |-> FALSE, err |-> e, activeNotes |-> <<>>, trashedNotes |-> <<>>]
    IN IF err # "" THEN failed(err)
       ELSE IF ~ParsesAsJson(doc) THEN failed("SyntaxError")
       ELSE IF ~ParsesToObject(doc) THEN failed("InvalidDecryptedData")
       ELSE [ok |-> TRUE, err |-> "", activeNotes |-> ArrayField(doc, "activeNotes"),
             trashedNotes |-> ArrayField(doc, "trashedNotes")]

\* ----------------------------------------- the store called by any client
ApiCollections ==
    { [a |-> Arr(<<MkNote("n1", "x", "", 1, 1, FALSE, Undef, Undef)>>),
       t |-> Arr(<<OldNote2>>)],
      [a |-> NotArray, t |-> Arr(<<>>)] }

\* saveEncryptedNotes(K, {activeNotes, trashedNotes}) is called.
ApiSave(K, c) ==
    /\ pc.stage = "idle"
    /\ CanSave
    /\ saveLog' = Append(saveLog, SaveEntry("api", K, c.a, c.t))
    /\ calls' = calls \cup {SaveCall("api", K, NoLegacyRead)}
    /\ rng' = rng + 2
    /\ UNCHANGED <<storeVars, pc, now, extVars, histVars, editVars, remVars, appVars, writeLog, ret, unlockCount>>

\* A save called by a client ends.
ApiSaveSettles(c, outcome) ==
    /\ pc.stage = "idle"
    /\ c \in calls /\ c.kind = "save" /\ c.caller = "api"
    /\ calls' = calls \ {c}
    /\ IF outcome = "ok"
       THEN PersistPayload(c)
       ELSE UNCHANGED <<enc, writeLog>>
    /\ ret' = [NoRet EXCEPT !.fn = "save", !.pass = c.pass, !.ok = (outcome = "ok"),
                            !.err = IF outcome = "ok" THEN "" ELSE outcome,
                            !.sid = c.id]
    /\ UNCHANGED <<legacyNotes, legacyTrash, pc, rng, now, extVars, histVars, editVars, remVars, appVars, saveLog, unlockCount>>

\* An unlock that throws when there is no record to decrypt.
ApiUnlockNeedsRecord(K) ==
    /\ pc.stage = "idle"
    /\ CanUnlock
    /\ unlockCount' = unlockCount + 1
    /\ IF enc.kind = "none"
       THEN /\ ret' = [NoRet EXCEPT !.fn = "unlock", !.pass = K, !.err = "NoRecord",
                                    !.wsid = -1]
            /\ UNCHANGED calls
       ELSE /\ calls' = calls \cup {DecryptCall("api", K)}
            /\ UNCHANGED ret
    /\ UNCHANGED <<storeVars, pc, rng, now, extVars, histVars, editVars, remVars, appVars, saveLog, writeLog>>

\* unlockEncryptedNotes(K) is called: without a record it returns the empty
\* vault at once, otherwise it reads the record and starts decrypting.
ApiUnlock(K) ==
    /\ pc.stage = "idle"
    /\ CanUnlock
    /\ unlockCount' = unlockCount + 1
    /\ IF enc.kind = "none"
       THEN /\ ret' = [NoRet EXCEPT !.fn = "unlock", !.pass = K, !.ok = TRUE, !.wsid = -1]
            /\ UNCHANGED calls
       ELSE /\ calls' = calls \cup {DecryptCall("api", K)}
            /\ UNCHANGED ret
    /\ UNCHANGED <<storeVars, pc, rng, now, extVars, histVars, editVars, remVars, appVars, saveLog, writeLog>>

\* The decryption of an unlockEncryptedNotes call ends.
ApiUnlockSettles(c) ==
    /\ pc.stage = "idle"
    /\ c \in calls /\ c.kind = "decrypt" /\ c.caller = "api"
    /\ calls' = calls \ {c}
    /\ LET r == UnlockResult(c.pass, c.raw)
       IN ret' = [NoRet EXCEPT !.fn = "unlock", !.pass = c.pass, !.ok = r.ok, !.err = r.err,
                               !.activeNotes = r.activeNotes,
                               !.trashedNotes = r.trashedNotes, !.wsid = c.wsid,
                               !.read = c.raw]
    /\ UNCHANGED <<storeVars, pc, rng, now, extVars, histVars, editVars, remVars, appVars, saveLog, writeLog, unlockCount>>

\* A migration that removes the legacy items as soon as it has read them,
\* before the save has ended.
ApiMigrateClearsFirst(K) ==
    /\ pc.stage = "idle"
    /\ CanSave
    /\ LET legacy == readLegacyNotesFromLocalStorage
       IN /\ saveLog' = Append(saveLog, SaveEntry("migrate_api", K, Arr(legacy.activeNotes),
                                                  Arr(legacy.trashedNotes)))
          /\ calls' = calls \cup {SaveCall("migrate_api", K, legacy)}
    /\ rng' = rng + 2
    /\ legacyNotes' = NoLegacy
    /\ legacyTrash' = NoLegacy
    /\ UNCHANGED <<enc, pc, now, extVars, histVars, editVars, remVars, appVars, writeLog, ret, unlockCount>>

\* createEncryptedVaultFromLegacy(K) is called: the legacy items are read and
\* the save is started.
ApiMigrate(K) ==
    /\ pc.stage = "idle"
    /\ CanSave
    /\ LET legacy == readLegacyNotesFromLocalStorage
       IN /\ saveLog' = Append(saveLog, SaveEntry("migrate_api", K, Arr(legacy.activeNotes),
                                                  Arr(legacy.trashedNotes)))
          /\ calls' = calls \cup {SaveCall("migrate_api", K, legacy)}
    /\ rng' = rng + 2
    /\ UNCHANGED <<storeVars, pc, now, extVars, histVars, editVars, remVars, appVars, writeLog, ret, unlockCount>>

\* The save awaited by createEncryptedVaultFromLegacy ends: on success the
\* record is persisted and the function goes on; on failure the error leaves
\* the function.
MigrateSaveSettles(c, outcome) ==
    /\ pc.stage = "idle"
    /\ c \in calls /\ c.kind = "save" /\ c.caller = "migrate_api"
    /\ calls' = calls \ {c}
    /\ IF outcome = "ok"
       THEN /\ PersistPayload(c)
            /\ pc' = [stage |-> "clear", caller |-> c.caller, pass |-> c.pass, sid |-> c.id,
                      wsid |-> c.wsid, legacy |-> c.legacy, lgN |-> c.lgN, lgT |-> c.lgT]
            /\ UNCHANGED ret
       ELSE /\ UNCHANGED <<enc, writeLog, pc>>
            /\ ret' = [NoRet EXCEPT !.fn = "migrate", !.pass = c.pass, !.err = outcome,
                                    !.sid = c.id, !.wsid = c.wsid,
                                    !.lgN = c.lgN, !.lgT = c.lgT]
    /\ UNCHANGED <<legacyNotes, legacyTrash, rng, now, extVars, histVars, editVars, remVars, appVars, saveLog, unlockCount>>

\* clearLegacyUnencryptedStorage
clearLegacyUnencryptedStorage ==
    /\ legacyNotes' = NoLegacy
    /\ legacyTrash' = NoLegacy

\* createEncryptedVaultFromLegacy after its save: the legacy items are
\* removed and the legacy collections returned.
MigrateReturns ==
    /\ pc.stage = "clear" /\ pc.caller = "migrate_api"
    /\ clearLegacyUnencryptedStorage
    /\ ret' = [NoRet EXCEPT !.fn = "migrate", !.pass = pc.pass, !.ok = TRUE,
                            !.activeNotes = pc.legacy.activeNotes,
                            !.trashedNotes = pc.legacy.trashedNotes,
                            !.migrated = pc.legacy.hadLegacyData,
                            !.sid = pc.sid, !.wsid = pc.wsid,
                            !.lgN = pc.lgN, !.lgT = pc.lgT]
    /\ pc' = Idle
    /\ UNCHANGED <<enc, calls, rng, now, extVars, histVars, editVars, remVars, appVars, saveLog, writeLog, unlockCount>>

VaultNext ==
    \/ \E K \in Passphrases, c \in ApiCollections : ApiSave(K, c)
    \/ \E c \in calls, o \in SaveOutcomes : ApiSaveSettles(c, o)
    \/ \E K \in Passphrases : ApiUnlock(K)
    \/ \E c \in calls : ApiUnlockSettles(c)
    \/ \E K \in Passphrases : ApiMigrate(K)
    \/ \E c \in calls, o \in SaveOutcomes : MigrateSaveSettles(c, o)
    \/ MigrateReturns

VaultSpec == Init /\ [][VaultNext]_vars

\* ---------------------------------- the encrypted item written by others
\* A ciphertext that verifies under no key the application derives.
DamagedData == AesGcmEncrypt(deriveAesKeyFromPassphrase("", -1), -1, GarbageText)

\* What another program of the same origin, or damage to the storage, can
\* leave in the encrypted item: the persisted record with one property
\* changed, or a record encrypted under a passphrase whose plaintext is not
\* a vault document.
ForeignRecords ==
    { [enc.val EXCEPT !.schema = "enc_notes_v0"],
      [enc.val EXCEPT !.salt = bytesToBase64(-1)],
      [enc.val EXCEPT !.iv = bytesToBase64(-1)],
      [enc.val EXCEPT !.data = bytesToBase64(DamagedData)] }
    \cup { encryptJsonToPayload(K, doc, -1, -2, now) :
              K \in Passphrases, doc \in {GarbageText, ScalarText, OtherObject} }

\* localStorage.setItem(ENCRYPTED_STORAGE_KEY, ...) by someone else.
ForeignWrite(p) ==
    /\ pc.stage = "idle"
    /\ enc.kind = "json"
    /\ foreignWrites < MaxForeign
    /\ foreignWrites' = foreignWrites + 1
    /\ UNCHANGED autosaved
    /\ enc' = JsonText(p)
    /\ UNCHANGED <<legacyNotes, legacyTrash, calls, pc, rng, now, appVars, saveLog,
                   writeLog, ret, unlockCount, remVars, histVars, editVars>>

RecordNext ==
    \/ \E K \in Passphrases, c \in ApiCollections : ApiSave(K, c)
    \/ \E c \in calls, o \in SaveOutcomes : ApiSaveSettles(c, o)
    \/ \E K \in Passphrases : ApiUnlock(K)
    \/ \E c \in calls : ApiUnlockSettles(c)
    \/ \E p \in ForeignRecords : ForeignWrite(p)

RecordSpec == Init /\ [][RecordNext]_vars

\* ------------------------------------------------------------ reminders.js
\* The state the module works on: the persisted map, the pending timers of
\* the browser, the Map of timer handles and the number of timer ids drawn.
RemState == [map |-> reminders, pending |-> timeouts, handles |-> scheduledTimeouts,
             count |-> timerCount]

SetRemState(rs) ==
    /\ reminders' = rs.map
    /\ timeouts' = rs.pending
    /\ scheduledTimeouts' = rs.handles
    /\ timerCount' = rs.count

\* The keys of the persisted map.
ReminderIds(map) == {map[i].noteId : i \in 1..Len(map)}

\* delete map[id]
RECURSIVE MapDelete(_, _)
MapDelete(map, id) ==
    IF map = <<>> THEN <<>>
    ELSE IF Head(map).noteId = id THEN MapDelete(Tail(map), id)
    ELSE <<Head(map)>> \o MapDelete(Tail(map), id)

\* map[id] = reminder: a key that exists keeps its position.
MapPut(map, reminder) ==
    IF reminder.noteId \in ReminderIds(map)
    THEN [i \in 1..Len(map) |->
             IF map[i].noteId = reminder.noteId THEN reminder ELSE map[i]]
    ELSE Append(map, reminder)

notificationsSupported == TRUE

\* internalCancelTimeout(noteId)
internalCancelTimeout(rs, noteId) ==
    LET held == {h \in rs.handles : h.noteId = noteId}
    IN [rs EXCEPT !.pending = {t \in @ : \A h \in held : t.tid # h.tid},
                  !.handles = @ \ held]

\* An internalScheduleTimeout that leaves the timer armed before in place.
internalScheduleTimeoutKeepsOld(rs, reminder) ==
    LET tid == rs.count + 1
    IN [rs EXCEPT !.pending = @ \cup {[tid |-> tid, noteId |-> reminder.noteId,
                                       remindAt |-> reminder.remindAt,
                                       due |-> IF reminder.remindAt > now
                                               THEN reminder.remindAt ELSE now]},
                  !.handles = {h \in @ : h.noteId # reminder.noteId}
                              \cup {[noteId |-> reminder.noteId, tid |-> tid]},
                  !.count = tid]

\* internalScheduleTimeout(reminder): the timer is due after
\* Math.max(0, remindAt - Date.now()).
internalScheduleTimeout(rs, reminder) ==
    LET c == internalCancelTimeout(rs, reminder.noteId)
        tid == c.count + 1
    IN [c EXCEPT !.pending = @ \cup {[tid |-> tid, noteId |-> reminder.noteId,
                                      remindAt |-> reminder.remindAt,
                                      due |-> IF reminder.remindAt > now
                                              THEN reminder.remindAt ELSE now]},
                 !.handles = @ \cup {[noteId |-> reminder.noteId, tid |-> tid]},
                 !.count = tid]

\* A cancelReminder that removes the persisted entry and leaves the timer.
cancelReminderKeepsTimer(rs, noteId) == [rs EXCEPT !.map = MapDelete(@, noteId)]

\* cancelReminder(noteId)
cancelReminder(rs, noteId) ==
    [internalCancelTimeout(rs, noteId) EXCEPT !.map = MapDelete(@, noteId)]

\* scheduleReminder(note, remindAt) when it does not throw.
scheduleReminder(rs, noteId, remindAt) ==
    LET reminder == [noteId |-> noteId, remindAt |-> remindAt]
    IN internalScheduleTimeout([rs EXCEPT !.map = MapPut(@, reminder)], reminder)

\* The error scheduleReminder throws, "" when it throws none.
scheduleReminderError(noteId, remindAt) ==
    IF noteId = "" THEN "scheduleReminder requires note.id"
    ELSE IF ~IsFinite(remindAt) THEN "scheduleReminder requires remindAt millis"
    ELSE ""

\* for (const r of Object.values(map)) internalScheduleTimeout(r)
RECURSIVE ScheduleEach(_, _)
ScheduleEach(rs, list) ==
    IF list = <<>> THEN rs
    ELSE ScheduleEach(internalScheduleTimeout(rs, Head(list)), Tail(list))

\* A reconciliation that keeps the entries of notes that no longer exist.
KeptWithOrphans(map, checkIds, existingNoteIds) ==
    SelectSeq(map, LAMBDA r : IsFinite(r.remindAt) /\ r.remindAt > now)

\* The entries rescheduleAllReminders keeps; checkIds tells whether
\* existingNoteIds was given.
RECURSIVE KeptReminders(_, _, _)
KeptReminders(map, checkIds, existingNoteIds) ==
    IF map = <<>> THEN <<>>
    ELSE LET r == Head(map)
             rest == KeptReminders(Tail(map), checkIds, existingNoteIds)
         IN IF ~IsFinite(r.remindAt) THEN rest
            ELSE IF checkIds /\ r.noteId \notin existingNoteIds THEN rest
            ELSE IF r.remindAt <= now THEN rest
            ELSE <<r>> \o rest

\* rescheduleAllReminders({ existingNoteIds })
rescheduleAllReminders(rs, checkIds, existingNoteIds) ==
    LET cleared == [rs EXCEPT !.pending = {t \in @ : \A h \in rs.handles : t.tid # h.tid},
                              !.handles = {}]
        kept == KeptReminders(rs.map, checkIds, existingNoteIds)
        written == [cleared EXCEPT !.map = kept]
    IN IF ~notificationsSupported \/ permission # "granted" THEN written
       ELSE ScheduleEach(written, kept)

\* getReminderForNote(noteId).remindAt, Undef when there is none.
ReminderTimeOf(map, noteId) ==
    IF noteId \in ReminderIds(map)
    THEN map[CHOOSE i \in 1..Len(map) : map[i].noteId = noteId].remindAt
    ELSE Undef

\* What a call that sets or clears a reminder leaves in the history: its
\* arguments, the error it threw and the map persisted before.
RemCall(fn, noteId, remindAt, err) ==
    [fn |-> fn, noteId |-> noteId, remindAt |-> remindAt, err |-> err,
     before |-> reminders, ids |-> {}]

\* -------------------------------------------------------- versionHistory.js
DEFAULT_MAX_SNAPSHOTS == 25

\* A property that holds a value which is not a string.
NotString == "[not a string]"

\* An element of a stored array that is not an object.
NullSnap == Snap(NotString, NotObject, NotString, NotString)

\* The value stored under a history key: kind is "none" when the key is
\* missing, "text" for a text JSON.parse rejects, "object" for a parsed value
\* that is not an array, "array" for an array with the given elements.
HistoryItem(kind, items) == [kind |-> kind, items |-> items]
NoHistory == HistoryItem("none", <<>>)

\* localStorage.getItem(historyStorageKey(noteId))
StoredHistory(h, noteId) == IF noteId \in DOMAIN h THEN h[noteId] ELSE NoHistory

\* safeParseJson(raw): null for a text that does not parse.
safeParseJson(raw) == IF raw.kind = "array" THEN Arr(raw.items) ELSE NotArray

\* The object the map step of readSnapshots builds from a stored element.
CoerceSnap(s) ==
    Snap(IF s.id = NotString THEN "" ELSE s.id,
         IF IsFinite(s.createdAt) THEN s.createdAt ELSE 0,
         IF s.title = NotString THEN "" ELSE s.title,
         IF s.body = NotString THEN "" ELSE s.body)

CoerceAll(items) == [i \in 1..Len(items) |-> CoerceSnap(items[i])]

\* Array.prototype.sort with (a, b) => b.createdAt - a.createdAt; the sort is
\* stable.
InsertSnap(s, sorted) ==
    LET k == Cardinality({i \in 1..Len(sorted) : sorted[i].createdAt >= s.createdAt})
    IN SubSeq(sorted, 1, k) \o <<s>> \o SubSeq(sorted, k + 1, Len(sorted))

RECURSIVE SortSnaps(_)
SortSnaps(items) ==
    IF items = <<>> THEN <<>>
    ELSE InsertSnap(items[Len(items)], SortSnaps(SubSeq(items, 1, Len(items) - 1)))

\* A read that leaves out the filter on id and createdAt.
readSnapshotsKeepsMalformed(h, noteId) ==
    LET raw == StoredHistory(h, noteId)
        parsed == safeParseJson(raw)
    IN IF raw.kind = "none" \/ ~parsed.arr THEN <<>>
       ELSE SortSnaps(CoerceAll(SelectSeq(parsed.items, LAMBDA s : s.createdAt # NotObject)))

\* readSnapshots(noteId)
readSnapshots(h, noteId) ==
    LET raw == StoredHistory(h, noteId)
        parsed == safeParseJson(raw)
    IN IF raw.kind = "none" \/ ~parsed.arr THEN <<>>
       ELSE SortSnaps(SelectSeq(
                CoerceAll(SelectSeq(parsed.items, LAMBDA s : s.createdAt # NotObject)),
                LAMBDA s : s.id # "" /\ s.createdAt # 0))

\* writeSnapshots(noteId, snapshots)
writeSnapshots(h, noteId, snapshots) ==
    [k \in DOMAIN h \cup {noteId} |->
        IF k = noteId THEN HistoryItem("array", snapshots) ELSE h[k]]

\* createSnapshotId(): the k-th id it returns.
SnapIds == <<"s1", "s2", "s3", "s4", "s5", "s6", "s7">>
createSnapshotId(k) == SnapIds[k]

\* normalizedTextForCompare(text): the text without its trailing white space.
\* The texts of the model that end in white space are listed with what is
\* left of them.
TrailingTrimmed == ("a " :> "a") @@ ("x\n" :> "x") @@ (" " :> "")

\* A comparison of the texts as they are.
normalizedTextExact(text) == text

normalizedTextForCompare(text) ==
    IF text \in DOMAIN TrailingTrimmed THEN TrailingTrimmed[text] ELSE text

\* getNoteSnapshots(noteId)
getNoteSnapshots(h, noteId) == IF noteId = "" THEN <<>> ELSE readSnapshots(h, noteId)

\* A slice that drops nothing.
SliceNone(items, n) == items

\* Array.prototype.slice(0, n)
SliceTo(items, n) == SubSeq(items, 1, IF n < Len(items) THEN n ELSE Len(items))

\* A duplicate check against every stored snapshot.
SameAsAny(existing, title, body) ==
    \E i \in 1..Len(existing) :
        /\ normalizedTextForCompare(title) = normalizedTextForCompare(existing[i].title)
        /\ normalizedTextForCompare(body) = normalizedTextForCompare(existing[i].body)

\* The duplicate check of addNoteSnapshot: there is a latest snapshot and its
\* normalized title and body are those of the note.
SameAsLatest(existing, title, body) ==
    /\ existing # <<>>
    /\ normalizedTextForCompare(title) = normalizedTextForCompare(existing[1].title)
    /\ normalizedTextForCompare(body) = normalizedTextForCompare(existing[1].body)

\* addNoteSnapshot(note, {maxSnapshots}) at time t, with sid the id that
\* createSnapshotId returns; a cap that is not a finite number is the default.
\* The result is the history items after the call and the value returned.
addNoteSnapshot(h, note, cap, t, sid) ==
    LET maxSnapshots == IF IsFinite(cap) THEN cap ELSE DEFAULT_MAX_SNAPSHOTS
        existing == readSnapshots(h, note.id)
        same == SameAsLatest(existing, note.title, note.body)
        snapshot == Snap(sid, t, note.title, note.body)
        next == SliceTo(<<snapshot>> \o existing,
                        IF maxSnapshots > 1 THEN maxSnapshots ELSE 1)
    IN IF note.id = "" \/ same
       THEN [store |-> h, ret |-> NoSnap]
       ELSE [store |-> writeSnapshots(h, note.id, next), ret |-> snapshot]

\* clearNoteSnapshots(noteId)
clearNoteSnapshots(h, noteId) ==
    IF noteId = "" THEN h ELSE [k \in DOMAIN h \ {noteId} |-> h[k]]

\* deleteNoteSnapshot(noteId, snapshotId)
deleteNoteSnapshot(h, noteId, snapshotId) ==
    IF noteId = "" \/ snapshotId = "" THEN h
    ELSE writeSnapshots(h, noteId,
             SelectSeq(readSnapshots(h, noteId), LAMBDA s : s.id # snapshotId))

\* ------------------------------------------------------------------ App.js
\* createId(): the k-th id it returns.
GenIds == <<"g1", "g2", "g3", "g4">>
createId(k) == GenIds[k]

\* normalizeTag(raw): trimmed, inner white space collapsed, in lower case.
\* The tags of the model that are not in that form are listed with their form.
TagForms == ("Work" :> "work") @@ (" work " :> "work") @@ ("  " :> "")

normalizeTag(raw) == IF raw \in DOMAIN TagForms THEN TagForms[raw] ELSE raw

\* Array.from(new Set(items)): the first occurrence of each element, in order.
RECURSIVE Uniq(_)
Uniq(items) ==
    IF items = <<>> THEN <<>>
    ELSE LET front == Uniq(SubSeq(items, 1, Len(items) - 1))
             last == items[Len(items)]
         IN IF \E i \in 1..Len(front) : front[i] = last THEN front ELSE Append(front, last)

\* items.map(normalizeTag)
NormalizeTags(items) == [i \in 1..Len(items) |-> normalizeTag(items[i])]

\* parseTagsInput(raw), raw given as its parts between commas, and the tags
\* normalizeNote keeps of an array.
parseTagsInput(parts) == Uniq(SelectSeq(NormalizeTags(parts), LAMBDA t : t # ""))

\* normalizeNote(raw) for an object raw, at time t, with id the value of
\* createId() should raw carry no usable id.
normalizeNote(raw, t, id) ==
    LET createdAt == IF IsFinite(raw.createdAt) THEN raw.createdAt ELSE t
    IN [id |-> IF raw.id # "" THEN raw.id ELSE id,
        title |-> raw.title,
        body |-> raw.body,
        createdAt |-> createdAt,
        updatedAt |-> IF IsFinite(raw.updatedAt) THEN raw.updatedAt ELSE createdAt,
        pinned |-> raw.pinned,
        tags |-> parseTagsInput(raw.tags),
        deletedAt |-> IF IsFinite(raw.deletedAt) THEN raw.deletedAt ELSE Undef,
        reminderAt |-> IF IsFinite(raw.reminderAt) THEN raw.reminderAt ELSE Undef]

\* raws.map(normalizeNote).filter(Boolean), with k ids already handed out:
\* the notes and the number of ids handed out afterwards.
RECURSIVE NormalizeAll(_, _, _)
NormalizeAll(raws, t, k) ==
    IF raws = <<>> THEN [out |-> <<>>, k |-> k]
    ELSE LET r == Head(raws)
         IN IF ~IsObject(r) THEN NormalizeAll(Tail(raws), t, k)
            ELSE IF r.id # ""
                 THEN LET rest == NormalizeAll(Tail(raws), t, k)
                      IN [out |-> <<normalizeNote(r, t, "")>> \o rest.out, k |-> rest.k]
                 ELSE LET rest == NormalizeAll(Tail(raws), t, k + 1)
                      IN [out |-> <<normalizeNote(r, t, createId(k + 1))>> \o rest.out,
                          k |-> rest.k]

\* .map((n) => ({ ...n, deletedAt: undefined }))
AsActive(s) == [i \in 1..Len(s) |-> [s[i] EXCEPT !.deletedAt = Undef]]

\* .map((n) => ({ ...n, deletedAt: finite ? n.deletedAt : Date.now(), pinned: false }))
AsTrashed(s, t) ==
    [i \in 1..Len(s) |->
        [s[i] EXCEPT !.deletedAt = IF IsFinite(@) THEN @ ELSE t, !.pinned = FALSE]]

NoteIds(s) == {s[i].id : i \in 1..Len(s)}

\* prev.filter((n) => n.id !== id)
RECURSIVE WithoutId(_, _)
WithoutId(s, id) ==
    IF s = <<>> THEN <<>>
    ELSE IF Head(s).id = id THEN WithoutId(Tail(s), id)
    ELSE <<Head(s)>> \o WithoutId(Tail(s), id)

\* notes.find((n) => n.id === id): its index, 0 when there is none.
RECURSIVE FindIndex(_, _, _)
FindIndex(s, id, i) ==
    IF i > Len(s) THEN 0
    ELSE IF s[i].id = id THEN i
    ELSE FindIndex(s, id, i + 1)

FirstId(s) == IF s = <<>> THEN "" ELSE s[1].id

\* new Map(prev.map((n) => [n.id, n])) followed by byId.set(n.id, n) for each
\* incoming note, as Array.from(byId.values()): a key keeps the position of
\* its first insertion and the value of its last.
RECURSIVE MapSetAll(_, _)
MapSetAll(vals, incoming) ==
    IF incoming = <<>> THEN vals
    ELSE LET n == Head(incoming)
             i == FindIndex(vals, n.id, 1)
         IN MapSetAll(IF i = 0 THEN Append(vals, n) ELSE [vals EXCEPT ![i] = n],
                      Tail(incoming))

\* A merge in which the note already held wins over the incoming one.
MergeKeepExisting(prev, incoming) == MapSetAll(MapSetAll(<<>>, incoming), prev)

MergeById(prev, incoming) == MapSetAll(MapSetAll(<<>>, prev), incoming)

\* The effect that keeps selectedId inside the list of the current view.
FixSelection(curr, v, ns, ts) ==
    LET list == IF v = "trash" THEN ts ELSE ns
    IN IF curr = "" THEN FirstId(list)
       ELSE IF curr \in NoteIds(list) THEN curr
       ELSE FirstId(list)

activeSelectedNote == FindIndex(notes, selectedId, 1)
trashSelectedNote == FindIndex(trashedNotes, selectedId, 1)

\* The effect on [notes, trashedNotes] after a render in which one of them
\* was set: rescheduleAllReminders({ existingNoteIds: ids }), run on the
\* reminder state rs the handler left.
RescheduleFrom(rs) ==
    LET ids == NoteIds(notes') \cup NoteIds(trashedNotes')
        r == rescheduleAllReminders(rs, TRUE, ids)
    IN /\ r.count <= MaxTimers
       /\ SetRemState(r)
       /\ UNCHANGED <<permission, firing, shown>>

RescheduleEffect == RescheduleFrom(RemState) /\ UNCHANGED remRet

\* safeTrimEnd(text), on the texts of the model; title.trim() gives the same
\* on them, none starting with white space.
safeTrimEnd(text) == IF text \in DOMAIN TrailingTrimmed THEN TrailingTrimmed[text] ELSE text

normalizeForCompare(text) == safeTrimEnd(text)

\* notes.find((n) => n.id === id) || null, as a sequence of at most one note.
ActiveNote(ns, id) ==
    LET i == FindIndex(ns, id, 1) IN IF i = 0 THEN <<>> ELSE <<ns[i]>>

\* currentDraftIsDifferentFromPersisted() in a render with view v, selected
\* note sel and editor fields d, reading the baseline.
currentDraftIsDifferentFromPersisted(v, sel, d, baseline) ==
    IF v # "notes" \/ sel = <<>> THEN FALSE
    ELSE IF baseline.noteId # sel[1].id THEN TRUE
    ELSE normalizeForCompare(d.title) # baseline.title
         \/ normalizeForCompare(d.body) # baseline.body

\* autosaveTokenRef.current += 1: the token of no pending callback is the
\* current one any more.
BumpToken(timers) == {[t EXCEPT !.current = FALSE] : t \in timers}

\* The callback setTimeout is given in a render with selected note sel and
\* editor fields d: what it closes over, and that its token is the current one.
AutosaveTimer(sel, d) ==
    [noteId |-> sel[1].id, title |-> d.title, body |-> d.body, current |-> TRUE]

\* clearTimeout(autosaveTimerRef.current), if it is set, with the timers
\* in pending.
ClearTimer(pending) == pending \ {autosaveTimerRef}

\* An autosave effect that has no cleanup: the timer of the render before
\* stays pending unless a new one is armed.
AutosaveEffectNoCleanup(d, baseline, pending) ==
    IF isUnlocked' /\ currentDraftIsDifferentFromPersisted(view', ActiveNote(notes', selectedId'),
                                                         d, baseline)
    THEN LET t == AutosaveTimer(ActiveNote(notes', selectedId'), d)
         IN /\ autosaveTimers' = BumpToken(ClearTimer(pending)) \cup {t}
            /\ autosaveTimerRef' = t
    ELSE /\ autosaveTimers' = pending
         /\ UNCHANGED autosaveTimerRef

\* The autosave effect after a render in which one of title, body, view,
\* activeSelectedNote, isUnlocked changed: the cleanup of the effect of the
\* render before, then the effect with editor fields d and the baseline.
AutosaveEffect(d, baseline, pending) ==
    IF isUnlocked' /\ currentDraftIsDifferentFromPersisted(view', ActiveNote(notes', selectedId'),
                                                         d, baseline)
    THEN LET t == AutosaveTimer(ActiveNote(notes', selectedId'), d)
         IN /\ autosaveTimers' = BumpToken(ClearTimer(pending)) \cup {t}
            /\ autosaveTimerRef' = t
    ELSE /\ autosaveTimers' = ClearTimer(pending)
         /\ autosaveTimerRef' = NoTimer

\* The editor sync effect and the autosave effect after a handler that set
\* notes, selectedId, view or isUnlocked and left the timers in pending and
\* the given baseline; renewed are the ids of the notes the handler replaced
\* by new objects. The sync effect runs when the selected note or the view
\* changed: it clears the pending timer, takes a new token and loads the
\* note into the editor and into the baseline, so the autosave effect that
\* follows finds nothing to save.
EditorEffectsFrom(renewed, pending, baseline) ==
    LET before == ActiveNote(notes, selectedId)
        after == ActiveNote(notes', selectedId')
        syncRuns == \/ after # before
                    \/ view' # view
                    \/ after # <<>> /\ after[1].id \in renewed
    IN IF syncRuns
       THEN /\ draft' = IF view' = "trash" \/ after = <<>> THEN NoDraft
                        ELSE [title |-> after[1].title, body |-> after[1].body]
            /\ lastPersistedRef' =
                  IF view' = "trash" \/ after = <<>> THEN NoBaseline
                  ELSE [noteId |-> after[1].id,
                        title |-> normalizeForCompare(after[1].title),
                        body |-> normalizeForCompare(after[1].body)]
            /\ autosaveTimers' = BumpToken(ClearTimer(pending))
            /\ autosaveTimerRef' = NoTimer
       ELSE IF isUnlocked' # isUnlocked
       THEN /\ AutosaveEffect(draft, baseline, pending)
            /\ draft' = draft
            /\ lastPersistedRef' = baseline
       ELSE /\ draft' = draft
            /\ lastPersistedRef' = baseline
            /\ autosaveTimers' = pending
            /\ UNCHANGED autosaveTimerRef

\* The two effects after a handler that touches neither timers nor baseline.
EditorEffects(renewed) == EditorEffectsFrom(renewed, autosaveTimers, lastPersistedRef)

\* A persistence effect that starts no save while one of its saves is still
\* in flight.
PersistEffectUnlessBusy(base) ==
    IF isUnlocked' /\ passphrase' # ""
       /\ ~\E c \in base : c.kind = "save" /\ c.caller = "effect"
    THEN /\ saveLog' = Append(saveLog, SaveEntry("effect", passphrase', Arr(notes'),
                                                 Arr(trashedNotes')))
         /\ calls' = base \cup {SaveCall("effect", passphrase', NoLegacyRead)}
         /\ rng' = rng + 2
    ELSE /\ calls' = base
         /\ UNCHANGED <<saveLog, rng>>

\* The encrypted persistence effect after a render in which one of notes,
\* trashedNotes, isUnlocked, passphrase changed; base are the calls in flight
\* otherwise.
PersistEffect(base) ==
    IF isUnlocked' /\ passphrase' # ""
    THEN /\ saveLog' = Append(saveLog, SaveEntry("effect", passphrase', Arr(notes'),
                                                 Arr(trashedNotes')))
         /\ calls' = base \cup {SaveCall("effect", passphrase', NoLegacyRead)}
         /\ rng' = rng + 2
    ELSE /\ calls' = base
         /\ UNCHANGED <<saveLog, rng>>

UnlockFailedMessage == "Incorrect passphrase or corrupted vault."
StorageFullMessage == "Storage is full or unavailable. Changes may not persist."

\* doUnlock after its await returned payload: the try block from
\* normalizedActive on, followed by the effects of the render.
DoUnlockSucceeds(phrase, activeRaw, trashedRaw, base) ==
    LET na == NormalizeAll(activeRaw, now, idCount)
        nt == NormalizeAll(trashedRaw, now, na.k)
        normalizedActive == SortNotes("pinned", AsActive(na.out))
        normalizedTrash == SortNotes("trash", AsTrashed(nt.out, now))
    IN /\ nt.k <= MaxCreates
       /\ CanSave
       /\ notes' = normalizedActive
       /\ trashedNotes' = normalizedTrash
       /\ idCount' = nt.k
       /\ selectedId' = FirstId(normalizedActive)
       /\ view' = "notes"
       /\ passphrase' = phrase
       /\ isUnlocked' = TRUE
       /\ unlockBusy' = FALSE
       /\ PersistEffect(base)
       /\ RescheduleEffect
       /\ EditorEffects(NoteIds(normalizedActive))

\* A doUnlock without its finally block: a failure leaves unlockBusy set.
DoUnlockFailsStaysBusy(base) ==
    /\ unlockError' = UnlockFailedMessage
    /\ calls' = base
    /\ UNCHANGED <<isUnlocked, passphrase, notes, trashedNotes, selectedId, view,
                   error, idCount, saveLog, rng, remVars, unlockBusy, editVars>>

\* doUnlock when its await threw: the catch and finally blocks.
DoUnlockFails(base) ==
    /\ unlockError' = UnlockFailedMessage
    /\ unlockBusy' = FALSE
    /\ calls' = base
    /\ UNCHANGED <<isUnlocked, passphrase, notes, trashedNotes, selectedId, view,
                   error, idCount, saveLog, rng, remVars, editVars>>

\* doUnlock(phrase), from the Unlock button or the Enter key of the
\* passphrase field, up to its await. Without a record and without legacy
\* data unlockEncryptedNotes returns the empty vault and doUnlock runs on.
DoUnlockStarts(phrase) ==
    /\ pc.stage = "idle"
    /\ ~isUnlocked
    /\ unlockCount' = unlockCount + 1
    /\ error' = ""
    /\ IF ~hasEncryptedPayload /\ hasLegacyUnencryptedNotes
       THEN LET legacy == readLegacyNotesFromLocalStorage
            IN /\ CanSave
               /\ saveLog' = Append(saveLog, SaveEntry("migrate_app", phrase,
                                                       Arr(legacy.activeNotes),
                                                       Arr(legacy.trashedNotes)))
               /\ calls' = calls \cup {SaveCall("migrate_app", phrase, legacy)}
               /\ rng' = rng + 2
               /\ unlockBusy' = TRUE
               /\ unlockError' = ""
               /\ UNCHANGED <<isUnlocked, passphrase, notes, trashedNotes, selectedId,
                              view, idCount, ret, remVars, editVars>>
       ELSE IF ~hasEncryptedPayload
       THEN /\ unlockError' = ""
            /\ ret' = [NoRet EXCEPT !.fn = "unlock", !.caller = "app", !.pass = phrase,
                                    !.ok = TRUE, !.wsid = -1,
                                    !.lgN = legacyNotes, !.lgT = legacyTrash]
            /\ DoUnlockSucceeds(phrase, <<>>, <<>>, calls)
       ELSE /\ calls' = calls \cup {DecryptCall("app", phrase)}
            /\ unlockBusy' = TRUE
            /\ unlockError' = ""
            /\ UNCHANGED <<isUnlocked, passphrase, notes, trashedNotes, selectedId,
                           view, idCount, ret, saveLog, rng, remVars, editVars>>
    /\ UNCHANGED <<storeVars, pc, now, extVars, histVars, writeLog>>

\* One unlock attempt of the session.
DoUnlock(phrase) == CanUnlock /\ DoUnlockStarts(phrase)

\* The decryption awaited by doUnlock ends and doUnlock runs to its end.
DoUnlockDecrypted(c) ==
    /\ pc.stage = "idle"
    /\ c \in calls /\ c.kind = "decrypt" /\ c.caller = "app"
    /\ LET r == UnlockResult(c.pass, c.raw)
       IN /\ ret' = [NoRet EXCEPT !.fn = "unlock", !.caller = "app", !.pass = c.pass,
                                  !.ok = r.ok, !.err = r.err,
                                  !.activeNotes = r.activeNotes,
                                  !.trashedNotes = r.trashedNotes, !.wsid = c.wsid,
                                  !.lgN = c.lgN, !.lgT = c.lgT, !.read = c.raw]
          /\ IF r.ok
             THEN /\ DoUnlockSucceeds(c.pass, r.activeNotes, r.trashedNotes, calls \ {c})
                  /\ UNCHANGED <<unlockError, error>>
             ELSE DoUnlockFails(calls \ {c})
    /\ UNCHANGED <<storeVars, pc, now, extVars, histVars, writeLog, unlockCount>>

\* The save awaited by createEncryptedVaultFromLegacy, called by doUnlock, ends.
DoUnlockMigrationSaved(c, outcome) ==
    /\ pc.stage = "idle"
    /\ c \in calls /\ c.kind = "save" /\ c.caller = "migrate_app"
    /\ IF outcome = "ok"
       THEN /\ PersistPayload(c)
            /\ pc' = [stage |-> "clear", caller |-> c.caller, pass |-> c.pass, sid |-> c.id,
                      wsid |-> c.wsid, legacy |-> c.legacy, lgN |-> c.lgN, lgT |-> c.lgT]
            /\ calls' = calls \ {c}
            /\ UNCHANGED <<ret, appVars, saveLog, rng, remVars, editVars>>
       ELSE /\ UNCHANGED <<enc, writeLog, pc>>
            /\ ret' = [NoRet EXCEPT !.fn = "migrate", !.caller = "app", !.pass = c.pass,
                                    !.err = outcome, !.sid = c.id, !.wsid = c.wsid,
                                    !.lgN = c.lgN, !.lgT = c.lgT]
            /\ DoUnlockFails(calls \ {c})
    /\ UNCHANGED <<legacyNotes, legacyTrash, now, extVars, histVars, unlockCount>>

\* createEncryptedVaultFromLegacy removes the legacy items and returns to
\* doUnlock, which runs to its end.
DoUnlockMigrated ==
    /\ pc.stage = "clear" /\ pc.caller = "migrate_app"
    /\ clearLegacyUnencryptedStorage
    /\ ret' = [NoRet EXCEPT !.fn = "migrate", !.caller = "app", !.pass = pc.pass,
                            !.ok = TRUE,
                            !.activeNotes = pc.legacy.activeNotes,
                            !.trashedNotes = pc.legacy.trashedNotes,
                            !.migrated = pc.legacy.hadLegacyData,
                            !.sid = pc.sid, !.wsid = pc.wsid,
                            !.lgN = pc.lgN, !.lgT = pc.lgT]
    /\ pc' = Idle
    /\ DoUnlockSucceeds(pc.pass, pc.legacy.activeNotes, pc.legacy.trashedNotes, calls)
    /\ UNCHANGED <<enc, now, extVars, histVars, writeLog, unlockCount, unlockError, error>>

\* A save started by the encrypted persistence effect ends.
EffectSaveSettles(c, outcome) ==
    /\ pc.stage = "idle"
    /\ c \in calls /\ c.kind = "save" /\ c.caller = "effect"
    /\ calls' = calls \ {c}
    /\ IF outcome = "ok"
       THEN PersistPayload(c) /\ UNCHANGED error
       ELSE UNCHANGED <<enc, writeLog>> /\ error' = StorageFullMessage
    /\ UNCHANGED <<legacyNotes, legacyTrash, pc, rng, now, extVars, histVars, editVars, remVars, isUnlocked, passphrase, notes,
                   trashedNotes, selectedId, view, unlockBusy, unlockError, idCount,
                   saveLog, ret, unlockCount>>

\* A lockNow that saves the collections as they are after clearing.
LockNowSavesCleared ==
    /\ pc.stage = "idle"
    /\ isUnlocked
    /\ passphrase # ""
    /\ CanSave
    /\ saveLog' = Append(saveLog, SaveEntry("lock", passphrase, Arr(<<>>), Arr(<<>>)))
    /\ calls' = calls \cup {SaveCall("lock", passphrase, NoLegacyRead)}
    /\ rng' = rng + 2
    /\ UNCHANGED <<storeVars, pc, now, extVars, histVars, editVars, remVars, appVars, writeLog, ret, unlockCount>>

\* lockNow() up to its await: the save before locking is started.
LockNow ==
    /\ pc.stage = "idle"
    /\ isUnlocked
    /\ passphrase # ""
    /\ CanSave
    /\ saveLog' = Append(saveLog, SaveEntry("lock", passphrase, Arr(notes), Arr(trashedNotes)))
    /\ calls' = calls \cup {SaveCall("lock", passphrase, NoLegacyRead)}
    /\ rng' = rng + 2
    /\ UNCHANGED <<storeVars, pc, now, extVars, histVars, editVars, remVars, appVars, writeLog, ret, unlockCount>>

\* The save awaited by lockNow ends, with or without an error, and lockNow
\* clears the state held in memory.
LockNowSaved(c, outcome) ==
    /\ pc.stage = "idle"
    /\ c \in calls /\ c.kind = "save" /\ c.caller = "lock"
    /\ calls' = calls \ {c}
    /\ IF outcome = "ok"
       THEN PersistPayload(c)
       ELSE UNCHANGED <<enc, writeLog>>
    /\ isUnlocked' = FALSE
    /\ passphrase' = ""
    /\ unlockError' = ""
    /\ selectedId' = ""
    /\ notes' = <<>>
    /\ trashedNotes' = <<>>
    /\ view' = "notes"
    /\ RescheduleEffect
    /\ EditorEffects({})
    /\ UNCHANGED <<legacyNotes, legacyTrash, pc, rng, now, extVars, histVars, unlockBusy, error, idCount,
                   saveLog, ret, unlockCount>>

\* addNoteSnapshot(note) as the handlers call it: inside a try, without a cap.
SnapshotEffect(note) ==
    LET r == addNoteSnapshot(history, note, Undef, now, createSnapshotId(snapCount + 1))
    IN /\ history' = r.store
       /\ snapCount' = IF r.ret = NoSnap THEN snapCount ELSE snapCount + 1
       /\ UNCHANGED histRet

\* What is left unchanged by an operation on the collections.
NoteOpFrame == UNCHANGED <<storeVars, pc, now, extVars, unlockBusy, unlockError, isUnlocked,
                           passphrase, writeLog, ret, unlockCount>>

\* createNewNote()
CreateNewNote ==
    /\ pc.stage = "idle"
    /\ NoteOpFrame
    /\ isUnlocked
    /\ idCount < MaxCreates
    /\ CanSave
    /\ LET newNote == MkNote(createId(idCount + 1), "Untitled", "", now, now, FALSE,
                             Absent, Undef)
       IN /\ notes' = SortNotes("pinned", <<newNote>> \o notes)
          /\ selectedId' = newNote.id
          /\ SnapshotEffect(newNote)
    /\ view' = "notes"
    /\ idCount' = idCount + 1
    /\ error' = ""
    /\ UNCHANGED trashedNotes
    /\ PersistEffect(calls)
    /\ RescheduleEffect
    /\ EditorEffects({})

\* The drafts the editor can hold when Save is pressed.
DraftTitles == {"", "t"}

\* saveSelectedNote() with the editor holding the given title and an empty body.
SaveSelectedNote(title) ==
    /\ pc.stage = "idle"
    /\ NoteOpFrame
    /\ UNCHANGED <<trashedNotes, selectedId, view, idCount>>
    /\ isUnlocked
    /\ view = "notes"
    /\ activeSelectedNote # 0
    /\ IF safeTrimEnd(title) = ""
       THEN /\ error' = "A note can't be completely empty. Add a title or some text."
            /\ UNCHANGED <<notes, calls, saveLog, rng, remVars, histVars, editVars>>
       ELSE /\ CanSave
            /\ error' = ""
            /\ SnapshotEffect([id |-> selectedId, title |-> safeTrimEnd(title), body |-> ""])
            /\ notes' = SortNotes("pinned",
                   [i \in 1..Len(notes) |->
                       IF notes[i].id = selectedId
                       THEN [notes[i] EXCEPT !.title = safeTrimEnd(title), !.body = "",
                                             !.updatedAt = now]
                       ELSE notes[i]])
            /\ PersistEffect(calls)
            /\ RescheduleEffect
            /\ EditorEffects({selectedId})

\* moveSelectedNoteToTrash(); ok is the answer to window.confirm.
MoveSelectedNoteToTrash(ok) ==
    /\ pc.stage = "idle"
    /\ NoteOpFrame
    /\ UNCHANGED histVars
    /\ UNCHANGED <<view, idCount>>
    /\ isUnlocked
    /\ view = "notes"
    /\ activeSelectedNote # 0
    /\ error' = ""
    /\ UNCHANGED remRet
    /\ IF ~ok
       THEN /\ UNCHANGED <<notes, trashedNotes, selectedId, calls, saveLog, rng>>
            /\ SetRemState(cancelReminder(RemState, selectedId))
            /\ UNCHANGED <<permission, firing, shown>>
       ELSE LET n == notes[activeSelectedNote]
                next == WithoutId(notes, n.id)
                trashedCopy == [n EXCEPT !.pinned = FALSE, !.deletedAt = now,
                                         !.reminderAt = Undef]
            IN /\ CanSave
               /\ notes' = next
               /\ trashedNotes' = SortNotes("trash",
                                      <<trashedCopy>> \o WithoutId(trashedNotes, n.id))
               /\ selectedId' = FixSelection(FirstId(next), view, notes', trashedNotes')
               /\ PersistEffect(calls)
               /\ RescheduleFrom(cancelReminder(RemState, n.id))
    /\ EditorEffects({})

\* restoreSelectedNoteFromTrash()
RestoreSelectedNoteFromTrash ==
    /\ pc.stage = "idle"
    /\ NoteOpFrame
    /\ UNCHANGED histVars
    /\ UNCHANGED <<view, idCount>>
    /\ isUnlocked
    /\ view = "trash"
    /\ trashSelectedNote # 0
    /\ CanSave
    /\ error' = ""
    /\ LET n == trashedNotes[trashSelectedNote]
           next == WithoutId(trashedNotes, n.id)
           restored == [n EXCEPT !.deletedAt = Undef, !.pinned = FALSE, !.updatedAt = now]
       IN /\ trashedNotes' = next
          /\ notes' = SortNotes("pinned", <<restored>> \o WithoutId(notes, n.id))
          /\ selectedId' = FixSelection(FirstId(next), view, notes', trashedNotes')
    /\ PersistEffect(calls)
    /\ RescheduleEffect
    /\ EditorEffects({})

\* permanentlyDeleteSelectedTrashNote(); ok is the answer to window.confirm.
PermanentlyDeleteSelectedTrashNote(ok) ==
    /\ pc.stage = "idle"
    /\ NoteOpFrame
    /\ UNCHANGED histVars
    /\ UNCHANGED <<notes, view, idCount>>
    /\ isUnlocked
    /\ view = "trash"
    /\ trashSelectedNote # 0
    /\ error' = ""
    /\ UNCHANGED remRet
    /\ IF ~ok
       THEN /\ UNCHANGED <<trashedNotes, selectedId, calls, saveLog, rng>>
            /\ SetRemState(cancelReminder(RemState, selectedId))
            /\ UNCHANGED <<permission, firing, shown>>
       ELSE LET next == WithoutId(trashedNotes, selectedId)
            IN /\ CanSave
               /\ trashedNotes' = next
               /\ selectedId' = FixSelection(FirstId(next), view, notes, trashedNotes')
               /\ PersistEffect(calls)
               /\ RescheduleFrom(cancelReminder(RemState, selectedId))
    /\ EditorEffects({})

\* emptyTrash(); ok is the answer to window.confirm.
EmptyTrash(ok) ==
    /\ pc.stage = "idle"
    /\ NoteOpFrame
    /\ UNCHANGED histVars
    /\ UNCHANGED <<notes, view, idCount>>
    /\ isUnlocked
    /\ trashedNotes # <<>>
    /\ error' = ""
    /\ IF ~ok
       THEN UNCHANGED <<trashedNotes, selectedId, calls, saveLog, rng, remVars>>
       ELSE /\ CanSave
            /\ trashedNotes' = <<>>
            /\ selectedId' = FixSelection("", view, notes, <<>>)
            /\ PersistEffect(calls)
            /\ RescheduleEffect
    /\ EditorEffects({})

\* The list item of note id is clicked.
SelectNote(id) ==
    /\ pc.stage = "idle"
    /\ isUnlocked
    /\ id \in NoteIds(IF view = "trash" THEN trashedNotes ELSE notes)
    /\ id # selectedId
    /\ selectedId' = id
    /\ error' = ""
    /\ UNCHANGED <<storeVars, calls, pc, rng, now, extVars, histVars, remVars, isUnlocked, passphrase, notes,
                   trashedNotes, view, unlockBusy, unlockError, idCount,
                   saveLog, writeLog, ret, unlockCount>>
    /\ EditorEffects({})

\* setView(v), followed by the selection effect.
SetView(v) ==
    /\ pc.stage = "idle"
    /\ isUnlocked
    /\ v # view
    /\ view' = v
    /\ selectedId' = FixSelection(selectedId, v, notes, trashedNotes)
    /\ error' = ""
    /\ UNCHANGED <<storeVars, calls, pc, rng, now, extVars, histVars, remVars, isUnlocked, passphrase, notes,
                   trashedNotes, unlockBusy, unlockError, idCount,
                   saveLog, writeLog, ret, unlockCount>>
    /\ EditorEffects({})

\* The files the user can pick for an import, as JSON.parse returns them.
ImportedNote == MkNote("n1", "imp", "", 1, 2, FALSE, Absent, Absent)
ImportedTrash == MkNote("n1", "imp", "", 1, 2, FALSE, 2, Absent)
ImportedAgain == MkNote("n1", "imp2", "", 1, 2, TRUE, Absent, Absent)
NoIdNote == MkNote("", "anon", "", Absent, Absent, FALSE, Absent, Absent)

ImportFiles ==
    << [fmt |-> "split", a |-> NotArray, t |-> Arr(<<ImportedTrash>>)],
       [fmt |-> "array", a |-> Arr(<<ImportedNote, NullEntry, NoIdNote>>), t |-> NotArray],
       [fmt |-> "notes", a |-> Arr(<<ImportedNote, ImportedAgain>>), t |-> NotArray],
       [fmt |-> "other", a |-> NotArray, t |-> NotArray] >>

\* extractNotesFromImportPayload(payload): ok is FALSE for null.
extractNotesFromImportPayload(payload) ==
    IF payload.fmt \in {"array", "notes"}
    THEN [ok |-> TRUE, activeNotes |-> payload.a.items, trashedNotes |-> <<>>]
    ELSE IF payload.fmt = "split" /\ (payload.a.arr \/ payload.t.arr)
    THEN [ok |-> TRUE, activeNotes |-> ArrOrEmpty(payload.a),
          trashedNotes |-> ArrOrEmpty(payload.t)]
    ELSE [ok |-> FALSE, activeNotes |-> <<>>, trashedNotes |-> <<>>]

ImportCall(f) ==
    [kind |-> "import", id |-> f, caller |-> "app", pass |-> "",
     raw |-> NoPayload, wsid |-> 0, legacy |-> NoLegacyRead,
     lgN |-> NoLegacy, lgT |-> NoLegacy, view |-> view]

\* importNotesFromJsonFile(file) up to its await of file.text().
ImportNotesFromJsonFile(f) ==
    /\ pc.stage = "idle"
    /\ isUnlocked
    /\ Cardinality({c \in calls : c.kind = "import"}) < MaxImports
    /\ calls' = calls \cup {ImportCall(f)}
    /\ error' = ""
    /\ UNCHANGED <<storeVars, pc, rng, now, extVars, histVars, editVars, remVars, isUnlocked, passphrase, notes, trashedNotes,
                   selectedId, view, unlockBusy, unlockError, idCount,
                   saveLog, writeLog, ret, unlockCount>>

\* importNotesFromJsonFile after file.text() has resolved.
ImportFileRead(c) ==
    /\ pc.stage = "idle"
    /\ NoteOpFrame
    /\ UNCHANGED histVars
    /\ UNCHANGED view
    /\ c \in calls /\ c.kind = "import"
    /\ LET extracted == extractNotesFromImportPayload(ImportFiles[c.id])
           na == NormalizeAll(extracted.activeNotes, now, idCount)
           nt == NormalizeAll(extracted.trashedNotes, now, na.k)
           incomingActive == AsActive(na.out)
           incomingTrash == AsTrashed(nt.out, now)
       IN IF ~extracted.ok
          THEN /\ error' = "Invalid import file format."
               /\ calls' = calls \ {c}
               /\ UNCHANGED <<notes, trashedNotes, selectedId, idCount, saveLog, rng, remVars,
                              editVars>>
          ELSE IF incomingActive = <<>> /\ incomingTrash = <<>>
          THEN /\ error' = "Import file contained no valid notes."
               /\ calls' = calls \ {c}
               /\ UNCHANGED <<notes, trashedNotes, selectedId, idCount, saveLog, rng, remVars,
                              editVars>>
          ELSE /\ nt.k <= MaxCreates
               /\ isUnlocked => CanSave
               /\ idCount' = nt.k
               /\ notes' = SortNotes("pinned", MergeById(notes, incomingActive))
               /\ trashedNotes' = SortNotes("trash", MergeById(trashedNotes, incomingTrash))
               /\ LET byIdA == NoteIds(notes) \cup NoteIds(incomingActive)
                      byIdT == NoteIds(trashedNotes) \cup NoteIds(incomingTrash)
                      s1 == IF c.view # "notes" THEN selectedId
                            ELSE IF selectedId # "" /\ selectedId \in byIdA THEN selectedId
                            ELSE FirstId(notes')
                      s2 == IF c.view # "trash" THEN s1
                            ELSE IF s1 # "" /\ s1 \in byIdT THEN s1
                            ELSE FirstId(trashedNotes')
                  IN selectedId' = FixSelection(s2, view, notes', trashedNotes')
               /\ UNCHANGED error
               /\ PersistEffect(calls \ {c})
               /\ RescheduleEffect
               /\ EditorEffects(NoteIds(incomingActive))

\* Time passes.
Tick ==
    /\ pc.stage = "idle"
    /\ now < MaxClock
    /\ now' = now + 1
    /\ UNCHANGED <<storeVars, calls, pc, rng, appVars, saveLog, writeLog, ret, unlockCount,
                   extVars, histVars, editVars, remVars>>

Next ==
    \/ \E K \in Passphrases : DoUnlock(K)
    \/ \E c \in calls : DoUnlockDecrypted(c)
    \/ \E c \in calls, o \in SaveOutcomes : DoUnlockMigrationSaved(c, o)
    \/ DoUnlockMigrated
    \/ \E c \in calls, o \in SaveOutcomes : EffectSaveSettles(c, o)
    \/ LockNow
    \/ \E c \in calls, o \in SaveOutcomes : LockNowSaved(c, o)
    \/ CreateNewNote
    \/ \E t \in DraftTitles : SaveSelectedNote(t)
    \/ \E ok \in BOOLEAN : MoveSelectedNoteToTrash(ok)
    \/ RestoreSelectedNoteFromTrash
    \/ \E ok \in BOOLEAN : PermanentlyDeleteSelectedTrashNote(ok)
    \/ \E ok \in BOOLEAN : EmptyTrash(ok)
    \/ \E id \in NoteIds(notes) \cup NoteIds(trashedNotes) : SelectNote(id)
    \/ \E v \in {"notes", "trash"} : SetView(v)
    \/ \E f \in 1..Len(ImportFiles) : ImportNotesFromJsonFile(f)
    \/ \E c \in calls : ImportFileRead(c)
    \/ Tick

Spec == Init /\ [][Next]_vars

\* ------------------------------------------------- reminders at run time
\* The values the time of a reminder can take: an instant that has passed,
\* one the clock reaches, one it does not reach, and a value that is not a
\* finite number.
ReminderTimes == {0, MaxClock, MaxClock + 1, Undef}

\* The notes the exports of reminders.js are called for.
ReminderNoteIds == {"n1"}

\* The values of Notification.permission; "denied" acts as "default" does.
Permissions == {"default", "granted"}

\* setReminderForSelectedNote(remindAtMs)
SetReminderForSelectedNote(remindAtMs) ==
    /\ pc.stage = "idle"
    /\ NoteOpFrame
    /\ UNCHANGED histVars
    /\ UNCHANGED <<trashedNotes, selectedId, view, idCount>>
    /\ IF ~isUnlocked
       THEN /\ error' = "Unlock to set reminders."
            /\ UNCHANGED <<notes, calls, saveLog, rng, remVars, editVars>>
       ELSE IF view # "notes"
       THEN /\ error' = "Set reminders from Notes (Trash is read-only)."
            /\ UNCHANGED <<notes, calls, saveLog, rng, remVars, editVars>>
       ELSE IF activeSelectedNote = 0
       THEN /\ error' = "No note selected."
            /\ UNCHANGED <<notes, calls, saveLog, rng, remVars, editVars>>
       ELSE IF ~IsFinite(remindAtMs) \/ remindAtMs <= now
       THEN /\ error' = "Pick a future time for the reminder."
            /\ UNCHANGED <<notes, calls, saveLog, rng, remVars, editVars>>
       ELSE /\ CanSave
            /\ error' = ""
            /\ notes' = SortNotes("pinned",
                   [i \in 1..Len(notes) |->
                       IF notes[i].id = selectedId
                       THEN [notes[i] EXCEPT !.reminderAt = remindAtMs]
                       ELSE notes[i]])
            /\ PersistEffect(calls)
            /\ remRet' = RemCall("scheduleReminder", selectedId, remindAtMs, "")
            /\ RescheduleFrom(scheduleReminder(RemState, selectedId, remindAtMs))
            /\ EditorEffects({selectedId})

\* clearReminderForSelectedNote()
ClearReminderForSelectedNote ==
    /\ pc.stage = "idle"
    /\ NoteOpFrame
    /\ UNCHANGED histVars
    /\ UNCHANGED <<trashedNotes, selectedId, view, idCount>>
    /\ error' = ""
    /\ IF ~isUnlocked \/ view # "notes" \/ activeSelectedNote = 0
       THEN UNCHANGED <<notes, calls, saveLog, rng, remVars, editVars>>
       ELSE /\ CanSave
            /\ notes' = SortNotes("pinned",
                   [i \in 1..Len(notes) |->
                       IF notes[i].id = selectedId
                       THEN [notes[i] EXCEPT !.reminderAt = Undef]
                       ELSE notes[i]])
            /\ PersistEffect(calls)
            /\ remRet' = RemCall("cancelReminder", selectedId, Undef, "")
            /\ RescheduleFrom(cancelReminder(RemState, selectedId))
            /\ EditorEffects({selectedId})

\* scheduleReminder({ id: noteId }, remindAt) called on the module.
ScheduleReminder(noteId, remindAt) ==
    /\ pc.stage = "idle"
    /\ LET err == scheduleReminderError(noteId, remindAt)
           rs == scheduleReminder(RemState, noteId, remindAt)
       IN /\ remRet' = RemCall("scheduleReminder", noteId, remindAt, err)
          /\ IF err # ""
             THEN UNCHANGED <<reminders, timeouts, scheduledTimeouts, timerCount>>
             ELSE /\ rs.count <= MaxTimers
                  /\ SetRemState(rs)
    /\ UNCHANGED <<storeVars, calls, pc, rng, now, extVars, histVars, editVars, appVars, saveLog, writeLog, ret,
                   unlockCount, permission, firing, shown>>

\* rescheduleAllReminders(), with the ids of the notes held in memory when
\* withIds holds and without argument otherwise.
RescheduleAllReminders(withIds) ==
    /\ pc.stage = "idle"
    /\ LET rs == rescheduleAllReminders(RemState, withIds,
                                        NoteIds(notes) \cup NoteIds(trashedNotes))
       IN /\ rs.count <= MaxTimers
          /\ SetRemState(rs)
    /\ UNCHANGED <<storeVars, calls, pc, rng, now, extVars, histVars, editVars, appVars, saveLog, writeLog, ret,
                   unlockCount, permission, firing, shown, remRet>>

\* A timer callback that leaves the persisted entry and the handle in place.
TimerFiresKeepsEntry(t) ==
    /\ pc.stage = "idle"
    /\ t \in timeouts
    /\ t.due <= now
    /\ timeouts' = timeouts \ {t}
    /\ firing' = [noteId |-> t.noteId, remindAt |-> t.remindAt]
    /\ pc' = [Idle EXCEPT !.stage = "notify"]
    /\ UNCHANGED <<storeVars, calls, rng, now, extVars, histVars, editVars, appVars, saveLog, writeLog, ret,
                   unlockCount, reminders, scheduledTimeouts, timerCount, permission,
                   shown, remRet>>

\* The callback of a pending timer t starts: the try and finally blocks.
TimerFires(t) ==
    /\ pc.stage = "idle"
    /\ t \in timeouts
    /\ t.due <= now
    /\ timeouts' = timeouts \ {t}
    /\ reminders' = MapDelete(reminders, t.noteId)
    /\ scheduledTimeouts' = {h \in scheduledTimeouts : h.noteId # t.noteId}
    /\ firing' = [noteId |-> t.noteId, remindAt |-> t.remindAt]
    /\ pc' = [Idle EXCEPT !.stage = "notify"]
    /\ UNCHANGED <<storeVars, calls, rng, now, extVars, histVars, editVars, appVars, saveLog, writeLog, ret,
                   unlockCount, timerCount, permission, shown, remRet>>

\* The callback ends: showReminderNotification(reminder).
ShowReminderNotification ==
    /\ pc.stage = "notify"
    /\ shown' = IF notificationsSupported /\ permission = "granted"
                THEN Append(shown, firing) ELSE shown
    /\ firing' = NoReminder
    /\ pc' = Idle
    /\ UNCHANGED <<storeVars, calls, rng, now, extVars, histVars, editVars, appVars, saveLog, writeLog, ret,
                   unlockCount, reminders, timeouts, scheduledTimeouts, timerCount,
                   permission, remRet>>

\* The user answers the permission prompt or changes the site settings.
SetPermission(p) ==
    /\ pc.stage = "idle"
    /\ p # permission
    /\ permission' = p
    /\ UNCHANGED <<storeVars, calls, pc, rng, now, extVars, histVars, editVars, appVars, saveLog, writeLog, ret,
                   unlockCount, reminders, timeouts, scheduledTimeouts, timerCount,
                   firing, shown, remRet>>

\* The page is loaded again: the state held in memory, the calls in flight
\* and the timers are gone, and the effects run as after the first render.
Reload ==
    /\ pc.stage = "idle"
    /\ calls' = {}
    /\ isUnlocked' = FALSE
    /\ passphrase' = ""
    /\ notes' = <<>>
    /\ trashedNotes' = <<>>
    /\ selectedId' = ""
    /\ view' = "notes"
    /\ unlockBusy' = FALSE
    /\ unlockError' = ""
    /\ error' = ""
    /\ RescheduleFrom([RemState EXCEPT !.pending = {}, !.handles = {}])
    /\ draft' = NoDraft
    /\ lastPersistedRef' = NoBaseline
    /\ autosaveTimers' = {}
    /\ autosaveTimerRef' = NoTimer
    /\ UNCHANGED <<storeVars, pc, rng, now, extVars, histVars, idCount, saveLog, writeLog, ret,
                   unlockCount, remRet>>

ReminderNext ==
    \/ \E K \in Passphrases : DoUnlock(K)
    \/ \E c \in calls : DoUnlockDecrypted(c)
    \/ \E c \in calls, o \in SaveOutcomes : EffectSaveSettles(c, o)
    \/ LockNow
    \/ \E c \in calls, o \in SaveOutcomes : LockNowSaved(c, o)
    \/ \E t \in DraftTitles : SaveSelectedNote(t)
    \/ \E t \in ReminderTimes : SetReminderForSelectedNote(t)
    \/ ClearReminderForSelectedNote
    \/ \E id \in ReminderNoteIds, t \in ReminderTimes : ScheduleReminder(id, t)
    \/ \E b \in BOOLEAN : RescheduleAllReminders(b)
    \/ \E t \in timeouts : TimerFires(t)
    \/ ShowReminderNotification
    \/ \E p \in Permissions : SetPermission(p)
    \/ Reload
    \/ Tick

\* The application started on the vault a previous session left.
ReminderInit == Init /\ hasEncryptedPayload

ReminderSpec == ReminderInit /\ [][ReminderNext]_vars

\* --------------------------------------- reconciliation of a persisted map
\* The notes a persisted map can name.
ReconcileIds == {"A", "B", "C"}

\* Maps another session can have left: per note no entry, an entry for one
\* of the times, or an entry whose remindAt is missing.
PersistedMaps ==
    LET entry(id, t) == IF t = Absent THEN <<>> ELSE <<[noteId |-> id, remindAt |-> t]>>
    IN { entry("A", a) \o entry("B", b) \o entry("C", c) :
            a \in ReminderTimes \cup {Absent}, b \in ReminderTimes \cup {Absent},
            c \in {Absent, MaxClock + 1} }

\* rescheduleAllReminders({ existingNoteIds }) called once on the module.
Reconcile(existingNoteIds) ==
    /\ pc.stage = "idle"
    /\ remRet = NoRemRet
    /\ remRet' = [RemCall("rescheduleAllReminders", "", Undef, "")
                     EXCEPT !.ids = existingNoteIds]
    /\ SetRemState(rescheduleAllReminders(RemState, TRUE, existingNoteIds))
    /\ UNCHANGED <<storeVars, calls, pc, rng, now, extVars, histVars, editVars, appVars, saveLog, writeLog, ret,
                   unlockCount, permission, firing, shown>>

\* cancelReminder(noteId) called on the module.
CancelReminder(noteId) ==
    /\ pc.stage = "idle"
    /\ remRet' = RemCall("cancelReminder", noteId, Undef, "")
    /\ SetRemState(cancelReminder(RemState, noteId))
    /\ UNCHANGED <<storeVars, calls, pc, rng, now, extVars, histVars, editVars, appVars, saveLog, writeLog, ret,
                   unlockCount, permission, firing, shown>>

ReconcileNext ==
    \/ \E ids \in SUBSET ReconcileIds : Reconcile(ids)
    \/ \E id \in ReconcileIds : CancelReminder(id)
    \/ \E p \in Permissions : SetPermission(p)
    \/ Tick

ReconcileInit ==
    /\ InitMemory
    /\ ~hasEncryptedPayload
    /\ reminders \in PersistedMaps
    /\ history = NoHistories

ReconcileSpec == ReconcileInit /\ [][ReconcileNext]_vars

\* ------------------------------------------ reminders on a failing storage
\* What localStorage.setItem does in a call: it stores the value or throws.
StorageOutcomes == {"ok", "QuotaExceededError"}

\* The frame of a call of an export of reminders.js.
ModuleCallFrame ==
    UNCHANGED <<storeVars, calls, pc, rng, now, extVars, histVars, editVars, appVars, saveLog, writeLog, ret,
                unlockCount, permission, firing, shown>>

\* A scheduleReminder that arms the timer before it writes the map.
ScheduleReminderOnArmsFirst(noteId, remindAt, o) ==
    IF o = "ok" \/ scheduleReminderError(noteId, remindAt) # ""
    THEN ScheduleReminder(noteId, remindAt)
    ELSE LET rs == internalScheduleTimeout(RemState, [noteId |-> noteId,
                                                     remindAt |-> remindAt])
         IN /\ pc.stage = "idle"
            /\ remRet' = RemCall("scheduleReminder", noteId, remindAt, o)
            /\ rs.count <= MaxTimers
            /\ SetRemState(rs)
            /\ ModuleCallFrame

\* scheduleReminder({ id: noteId }, remindAt): a setItem that throws ends
\* the call before internalScheduleTimeout.
ScheduleReminderOn(noteId, remindAt, o) ==
    IF o = "ok" \/ scheduleReminderError(noteId, remindAt) # ""
    THEN ScheduleReminder(noteId, remindAt)
    ELSE /\ pc.stage = "idle"
         /\ remRet' = RemCall("scheduleReminder", noteId, remindAt, o)
         /\ UNCHANGED <<reminders, timeouts, scheduledTimeouts, timerCount>>
         /\ ModuleCallFrame

\* cancelReminder(noteId): the timer is cancelled first, and setItem is
\* called only if the map has an entry for the note.
CancelReminderOn(noteId, o) ==
    IF o = "ok" \/ noteId \notin ReminderIds(reminders)
    THEN CancelReminder(noteId)
    ELSE /\ pc.stage = "idle"
         /\ remRet' = RemCall("cancelReminder", noteId, Undef, o)
         /\ SetRemState(internalCancelTimeout(RemState, noteId))
         /\ ModuleCallFrame

\* rescheduleAllReminders({ existingNoteIds }): a setItem that throws is
\* ignored and the timers are armed from the reconciled map.
RescheduleOn(existingNoteIds, o) ==
    LET rs == rescheduleAllReminders(RemState, TRUE, existingNoteIds)
    IN /\ pc.stage = "idle"
       /\ rs.count <= MaxTimers
       /\ remRet' = [RemCall("rescheduleAllReminders", "", Undef, "")
                        EXCEPT !.ids = existingNoteIds]
       /\ SetRemState(IF o = "ok" THEN rs ELSE [rs EXCEPT !.map = reminders])
       /\ ModuleCallFrame

\* The callback of timer t up to showReminderNotification: a setItem that
\* throws is ignored, the handle is dropped in the finally block.
TimerFiresOn(t, o) ==
    IF o = "ok" THEN TimerFires(t)
    ELSE /\ pc.stage = "idle"
         /\ t \in timeouts
         /\ t.due <= now
         /\ timeouts' = timeouts \ {t}
         /\ scheduledTimeouts' = {h \in scheduledTimeouts : h.noteId # t.noteId}
         /\ firing' = [noteId |-> t.noteId, remindAt |-> t.remindAt]
         /\ pc' = [Idle EXCEPT !.stage = "notify"]
         /\ UNCHANGED <<storeVars, calls, rng, now, extVars, histVars, editVars, appVars, saveLog, writeLog, ret,
                        unlockCount, reminders, timerCount, permission, shown, remRet>>

FaultNext ==
    \/ \E t \in ReminderTimes, o \in StorageOutcomes : ScheduleReminderOn("A", t, o)
    \/ \E id \in ReconcileIds, o \in StorageOutcomes : CancelReminderOn(id, o)
    \/ \E o \in StorageOutcomes : RescheduleOn({"A", "C"}, o)
    \/ \E t \in timeouts, o \in StorageOutcomes : TimerFiresOn(t, o)
    \/ ShowReminderNotification
    \/ \E p \in Permissions : SetPermission(p)
    \/ Tick

FaultInit == ReconcileInit /\ ~hasLegacyUnencryptedNotes

FaultSpec == FaultInit /\ [][FaultNext]_vars

\* ------------------------------------------------- the history of a note
MaxSnapshotCalls == 6

\* The notes addNoteSnapshot is called for: two titles that differ in their
\* trailing white space only, a third title, a body that is white space, and
\* a note without id.
HistoryNotes ==
    { [id |-> "n1", title |-> t, body |-> ""] : t \in {"a", "a ", "b"} }
    \cup { [id |-> "n1", title |-> "a", body |-> " "], [id |-> "", title |-> "a", body |-> ""] }

\* The caps a caller passes.
Caps == {0, 1, 2}

\* What the history key of note n1 holds at the start: nothing, a text that
\* is not JSON, a JSON value that is not an array, an array with malformed
\* elements of which the later one is the newer, and an array of three
\* snapshots.
DamagedHistory ==
    <<NullSnap, Snap(NotString, 1, "a", ""), Snap("p1", Undef, "a", ""),
      Snap("p2", 0, "a", ""), Snap("p3", 1, NotString, " "), Snap("p4", 2, "b", NotString)>>

LongHistory == <<Snap("p1", 1, "a", ""), Snap("p2", 1, "b", ""), Snap("p3", 1, "b", " ")>>

StoredHistories ==
    { NoHistory, HistoryItem("text", <<>>), HistoryItem("object", <<>>),
      HistoryItem("array", DamagedHistory), HistoryItem("array", LongHistory) }

\* The history key of note n2, for which no call is made, holds a snapshot and
\* an element that is none.
OtherHistory == HistoryItem("array", <<NullSnap, Snap("q1", 1, "a", "")>>)

HistoryNoteIds == {"n1", ""}

HistCall(fn, noteId, cap, r, err) ==
    [fn |-> fn, noteId |-> noteId, cap |-> cap, ret |-> r, err |-> err]

HistoryFrame ==
    UNCHANGED <<storeVars, calls, pc, rng, now, extVars, remVars, appVars, saveLog,
                writeLog, ret, unlockCount, editVars>>

\* addNoteSnapshot(note, {maxSnapshots: cap})
AddNoteSnapshot(note, cap) ==
    /\ pc.stage = "idle"
    /\ snapCount < MaxSnapshotCalls
    /\ LET r == addNoteSnapshot(history, note, cap, now, createSnapshotId(snapCount + 1))
       IN /\ history' = r.store
          /\ snapCount' = IF r.ret = NoSnap THEN snapCount ELSE snapCount + 1
          /\ histRet' = HistCall("addNoteSnapshot", note.id, cap, r.ret, "")
    /\ HistoryFrame

\* getNoteSnapshots(noteId)
GetNoteSnapshots(noteId) ==
    /\ pc.stage = "idle"
    /\ histRet' = HistCall("getNoteSnapshots", noteId, Undef, NoSnap, "")
    /\ UNCHANGED <<history, snapCount>>
    /\ HistoryFrame

\* clearNoteSnapshots(noteId)
ClearNoteSnapshots(noteId) ==
    /\ pc.stage = "idle"
    /\ history' = clearNoteSnapshots(history, noteId)
    /\ histRet' = HistCall("clearNoteSnapshots", noteId, Undef, NoSnap, "")
    /\ UNCHANGED snapCount
    /\ HistoryFrame

\* deleteNoteSnapshot(noteId, snapshotId); o is what the setItem of
\* writeSnapshots does, which no try encloses.
DeleteNoteSnapshot(noteId, snapshotId, o) ==
    /\ pc.stage = "idle"
    /\ IF noteId = "" \/ snapshotId = "" \/ o = "ok"
       THEN /\ history' = deleteNoteSnapshot(history, noteId, snapshotId)
            /\ histRet' = HistCall("deleteNoteSnapshot", noteId, Undef,
                                   Snap(snapshotId, Undef, "", ""), "")
       ELSE /\ UNCHANGED history
            /\ histRet' = HistCall("deleteNoteSnapshot", noteId, Undef,
                                   Snap(snapshotId, Undef, "", ""), o)
    /\ UNCHANGED snapCount
    /\ HistoryFrame

\* The snapshot ids a caller passes for a note: the ids stored for it, an id
\* that is not stored, and no id.
SnapshotIdsOf(noteId) ==
    {getNoteSnapshots(history, noteId)[i].id : i \in 1..Len(getNoteSnapshots(history, noteId))}
    \cup {"s0", ""}

HistoryNext ==
    \/ \E note \in HistoryNotes, cap \in Caps : AddNoteSnapshot(note, cap)
    \/ \E id \in HistoryNoteIds : GetNoteSnapshots(id)
    \/ \E id \in HistoryNoteIds : ClearNoteSnapshots(id)
    \/ \E id \in HistoryNoteIds, o \in StorageOutcomes :
          \E sid \in SnapshotIdsOf(id) : DeleteNoteSnapshot(id, sid, o)
    \/ Tick

HistoryInit ==
    /\ InitMemory
    /\ ~hasEncryptedPayload
    /\ ~hasLegacyUnencryptedNotes
    /\ reminders = <<>>
    /\ \E item \in StoredHistories :
          history = [k \in (IF item = NoHistory THEN {} ELSE {"n1"}) \cup {"n2"} |->
                        IF k = "n1" THEN item ELSE OtherHistory]

HistorySpec == HistoryInit /\ [][HistoryNext]_vars

\* ------------------------------------------------------ pin and tag edits
\* A note with tags, and the record a previous session persisted with it
\* under passphrase k1.
TaggedNote == [OldNote1 EXCEPT !.tags = <<"work", "home">>]

TaggedPayload ==
    encryptJsonToPayload("k1", VaultJson(Arr(<<TaggedNote>>), Arr(<<>>)), 0, 0, 0)

\* What the user types into the tag field, as its parts between commas, and
\* the tags the tag manager is called with.
TagInputs == {<<"Work">>, <<" work ", "urgent">>, <<"  ">>}
TagNames == {"work", "urgent", ""}

\* allTags
allTags ==
    UNION { {normalizeTag(notes[i].tags[j]) : j \in 1..Len(notes[i].tags)} : i \in 1..Len(notes) }

\* The tags of a note as the global operations read them:
\* (n.tags || []).map(normalizeTag).filter(Boolean)
TagsOf(n) == SelectSeq(NormalizeTags(n.tags), LAMBDA t : t # "")

\* setNotes(prev => prev.map(f), sorted pinned first) and the effects of the
\* render that follows; edit gives the note that replaces a note.
SetNotesMapped(edit(_)) ==
    /\ CanSave
    /\ notes' = SortNotes("pinned", [i \in 1..Len(notes) |-> edit(notes[i])])
    /\ UNCHANGED <<trashedNotes, selectedId, view, idCount>>
    /\ PersistEffect(calls)
    /\ RescheduleEffect
    /\ EditorEffects({})

\* togglePin(noteId)
TogglePin(noteId) ==
    /\ pc.stage = "idle"
    /\ NoteOpFrame
    /\ UNCHANGED <<histVars, error>>
    /\ isUnlocked
    /\ view = "notes"
    /\ LET edit(n) == IF n.id = noteId THEN [n EXCEPT !.pinned = ~n.pinned] ELSE n
       IN SetNotesMapped(edit)

\* addTagsToSelectedNote(rawInput)
AddTagsToSelectedNote(rawInput) ==
    /\ pc.stage = "idle"
    /\ NoteOpFrame
    /\ UNCHANGED histVars
    /\ isUnlocked
    /\ view = "notes"
    /\ activeSelectedNote # 0
    /\ error' = ""
    /\ IF parseTagsInput(rawInput) = <<>>
       THEN UNCHANGED <<notes, trashedNotes, selectedId, view, idCount, calls, saveLog, rng,
                        remVars, editVars>>
       ELSE LET edit(n) ==
                   IF n.id # selectedId THEN n
                   ELSE [n EXCEPT !.tags = Uniq(NormalizeTags(n.tags)
                                                \o parseTagsInput(rawInput))]
            IN SetNotesMapped(edit)

\* removeTagFromSelectedNote(tagToRemove)
RemoveTagFromSelectedNote(tagToRemove) ==
    /\ pc.stage = "idle"
    /\ NoteOpFrame
    /\ UNCHANGED histVars
    /\ isUnlocked
    /\ view = "notes"
    /\ activeSelectedNote # 0
    /\ error' = ""
    /\ IF normalizeTag(tagToRemove) = ""
       THEN UNCHANGED <<notes, trashedNotes, selectedId, view, idCount, calls, saveLog, rng,
                        remVars, editVars>>
       ELSE LET edit(n) ==
                   IF n.id # selectedId THEN n
                   ELSE [n EXCEPT !.tags = SelectSeq(NormalizeTags(n.tags),
                                               LAMBDA t : t # normalizeTag(tagToRemove))]
            IN SetNotesMapped(edit)

\* renameTagGlobally(fromTag, toTag), when it returns {ok: true}
RenameTagGlobally(fromTag, toTag) ==
    /\ pc.stage = "idle"
    /\ NoteOpFrame
    /\ UNCHANGED <<histVars, error>>
    /\ isUnlocked
    /\ normalizeTag(fromTag) # "" /\ normalizeTag(toTag) # ""
    /\ normalizeTag(fromTag) # normalizeTag(toTag)
    /\ normalizeTag(fromTag) \in allTags
    /\ LET from == normalizeTag(fromTag)
           to == normalizeTag(toTag)
           edit(n) ==
               IF ~\E i \in 1..Len(TagsOf(n)) : TagsOf(n)[i] = from THEN n
               ELSE [n EXCEPT !.tags =
                        Uniq([i \in 1..Len(TagsOf(n)) |->
                                 IF TagsOf(n)[i] = from THEN to ELSE TagsOf(n)[i]])]
       IN SetNotesMapped(edit)

\* deleteTagGlobally(tag), when it returns {ok: true}
DeleteTagGlobally(tag) ==
    /\ pc.stage = "idle"
    /\ NoteOpFrame
    /\ UNCHANGED <<histVars, error>>
    /\ isUnlocked
    /\ normalizeTag(tag) # ""
    /\ normalizeTag(tag) \in allTags
    /\ LET t == normalizeTag(tag)
           edit(n) ==
               IF ~\E i \in 1..Len(TagsOf(n)) : TagsOf(n)[i] = t THEN n
               ELSE [n EXCEPT !.tags = SelectSeq(TagsOf(n), LAMBDA x : x # t)]
       IN SetNotesMapped(edit)

EditNext ==
    \/ \E K \in Passphrases : DoUnlock(K)
    \/ \E c \in calls : DoUnlockDecrypted(c)
    \/ \E c \in calls, o \in SaveOutcomes : EffectSaveSettles(c, o)
    \/ \E t \in DraftTitles : SaveSelectedNote(t)
    \/ \E id \in {"n1", "n2"} : TogglePin(id)
    \/ \E raw \in TagInputs : AddTagsToSelectedNote(raw)
    \/ \E t \in TagNames : RemoveTagFromSelectedNote(t)
    \/ \E from \in TagNames, to \in TagNames : RenameTagGlobally(from, to)
    \/ \E t \in TagNames : DeleteTagGlobally(t)
    \/ Tick

\* The application started on the vault with the tagged note.
EditInit ==
    /\ enc = JsonText(TaggedPayload)
    /\ legacyNotes = NoLegacy
    /\ legacyTrash = NoLegacy
    /\ InitSession
    /\ reminders = <<>>
    /\ history = NoHistories

EditSpec == EditInit /\ [][EditNext]_vars

\* ---------------------------------------------------------- the lock screen
\* The unlock attempts of one session of the lock screen.
MaxAttempts == 2

\* The Unlock button, disabled while the field is blank or unlockBusy is set:
\* onClick={() => doUnlock(passphraseDraft)}.
UnlockButtonClick(phrase) ==
    /\ ~unlockBusy
    /\ unlockCount < MaxAttempts
    /\ DoUnlockStarts(phrase)

\* onKeyDown of the passphrase field with the Enter key: doUnlock(passphraseDraft)
\* unless the field is blank.
PassphraseEnterKey(phrase) ==
    /\ unlockCount < MaxAttempts
    /\ DoUnlockStarts(phrase)

UnlockNext ==
    \/ \E K \in Passphrases : UnlockButtonClick(K)
    \/ \E K \in Passphrases : PassphraseEnterKey(K)
    \/ \E c \in calls : DoUnlockDecrypted(c)
    \/ \E c \in calls, o \in SaveOutcomes : DoUnlockMigrationSaved(c, o)
    \/ DoUnlockMigrated
    \/ \E c \in calls, o \in SaveOutcomes : EffectSaveSettles(c, o)
    \/ LockNow
    \/ \E c \in calls, o \in SaveOutcomes : LockNowSaved(c, o)
    \/ \E p \in ForeignRecords : ForeignWrite(p)
    \/ Tick

UnlockSpec == Init /\ [][UnlockNext]_vars

\* --------------------------------------------------- the editor and autosave
\* The autosave callbacks that run in one session.
MaxAutosaves == 2

\* A vault with two active notes, saved under passphrase k1.
SecondNote == MkNote("n2", "two", "", 1, 1, FALSE, Absent, Absent)

TwoNotesPayload ==
    encryptJsonToPayload("k1", VaultJson(Arr(<<OldNote1, SecondNote>>), Arr(<<>>)), 0, 0, 0)

\* What the user leaves in the title field: a new title, the same with a
\* trailing space, the title note n1 has already, and a blank.
TypedTitles == {"a", "a ", "one", " "}

\* onChange of the title field: setTitle(e.target.value), followed by the
\* autosave effect of the render.
SetTitle(text) ==
    /\ pc.stage = "idle"
    /\ isUnlocked
    /\ view = "notes"
    /\ activeSelectedNote # 0
    /\ text # draft.title
    /\ UNCHANGED <<storeVars, calls, pc, rng, now, extVars, histVars, remVars, appVars,
                   saveLog, writeLog, ret, unlockCount, lastPersistedRef>>
    /\ draft' = [draft EXCEPT !.title = text]
    /\ AutosaveEffect(draft', lastPersistedRef, autosaveTimers)

\* The callback of autosave timer t runs, 900 ms after it was armed or
\* later, followed by the effects of the render it causes.
AutosaveFires(t) ==
    /\ pc.stage = "idle"
    /\ t \in autosaveTimers
    /\ autosaved.count < MaxAutosaves
    /\ autosaved' = [count |-> autosaved.count + 1, noteId |-> t.noteId,
                     title |-> t.title, body |-> t.body]
    /\ UNCHANGED <<storeVars, pc, now, foreignWrites, unlockBusy, unlockError, isUnlocked,
                   passphrase, writeLog, ret, unlockCount, trashedNotes, selectedId, view,
                   idCount, error>>
    /\ LET trimmedTitle == safeTrimEnd(t.title)
           trimmedBody == safeTrimEnd(t.body)
           nextTitle == IF trimmedTitle = "" THEN "Untitled" ELSE trimmedTitle
           closedOver == [title |-> t.title, body |-> t.body]
           dirty == currentDraftIsDifferentFromPersisted("notes", <<[id |-> t.noteId]>>,
                                                         closedOver, lastPersistedRef)
       IN IF ~t.current \/ ~dirty \/ (trimmedTitle = "" /\ trimmedBody = "")
          THEN /\ autosaveTimers' = autosaveTimers \ {t}
               /\ UNCHANGED <<notes, calls, saveLog, rng, remVars, histVars, draft,
                              lastPersistedRef, autosaveTimerRef>>
          ELSE /\ isUnlocked => CanSave
               /\ notes' = SortNotes("pinned",
                      [i \in 1..Len(notes) |->
                          IF notes[i].id = t.noteId
                          THEN [notes[i] EXCEPT !.title = nextTitle, !.body = trimmedBody,
                                                !.updatedAt = now]
                          ELSE notes[i]])
               /\ SnapshotEffect([id |-> t.noteId, title |-> nextTitle, body |-> trimmedBody])
               /\ PersistEffect(calls)
               /\ RescheduleEffect
               /\ EditorEffectsFrom({t.noteId}, autosaveTimers \ {t},
                                    [noteId |-> t.noteId,
                                     title |-> normalizeForCompare(nextTitle),
                                     body |-> normalizeForCompare(trimmedBody)])

AutosaveNext ==
    \/ \E K \in Passphrases : DoUnlock(K)
    \/ \E c \in calls : DoUnlockDecrypted(c)
    \/ \E c \in calls, o \in SaveOutcomes : EffectSaveSettles(c, o)
    \/ \E text \in TypedTitles : SetTitle(text)
    \/ \E t \in autosaveTimers : AutosaveFires(t)
    \/ SaveSelectedNote(draft.title)
    \/ \E id \in {"n1", "n2"} : SelectNote(id)
    \/ \E v \in {"notes", "trash"} : SetView(v)
    \/ LockNow
    \/ \E c \in calls, o \in SaveOutcomes : LockNowSaved(c, o)
    \/ Tick

\* The application started on the vault with the two notes.
AutosaveInit ==
    /\ enc = JsonText(TwoNotesPayload)
    /\ legacyNotes = NoLegacy
    /\ legacyTrash = NoLegacy
    /\ InitSession
    /\ reminders = <<>>
    /\ history = NoHistories

AutosaveSpec == AutosaveInit /\ [][AutosaveNext]_vars

\* ------------------------------------------------------------------ the trash
\* The record a session persisted after an import had put the id of the
\* active note n1 into the trash as well.
TrashedTwin == MkNote("n1", "imp", "", 1, 1, FALSE, 1, Absent)

DuplicatePayload ==
    encryptJsonToPayload("k1", VaultJson(Arr(<<OldNote1>>), Arr(<<TrashedTwin, OldNote2>>)),
                         0, 0, 0)

TrashNext ==
    \/ \E K \in Passphrases : DoUnlock(K)
    \/ \E c \in calls : DoUnlockDecrypted(c)
    \/ \E c \in calls, o \in SaveOutcomes : EffectSaveSettles(c, o)
    \/ \E ok \in BOOLEAN : MoveSelectedNoteToTrash(ok)
    \/ RestoreSelectedNoteFromTrash
    \/ \E ok \in BOOLEAN : PermanentlyDeleteSelectedTrashNote(ok)
    \/ \E ok \in BOOLEAN : EmptyTrash(ok)
    \/ \E id \in NoteIds(notes) \cup NoteIds(trashedNotes) : SelectNote(id)
    \/ \E v \in {"notes", "trash"} : SetView(v)
    \/ \E t \in ReminderTimes : SetReminderForSelectedNote(t)
    \/ \E t \in timeouts : TimerFires(t)
    \/ ShowReminderNotification
    \/ \E p \in Permissions : SetPermission(p)
    \/ Tick

\* The application started on the record of the previous session, or on the
\* record with the id in both collections.
TrashInit ==
    /\ enc \in {JsonText(OldPayload), JsonText(DuplicatePayload)}
    /\ legacyNotes = NoLegacy
    /\ legacyTrash = NoLegacy
    /\ InitSession
    /\ reminders = <<>>
    /\ history = NoHistories

TrashSpec == TrashInit /\ [][TrashNext]_vars

\* =================================================== properties of the store
\* History: the passphrase under which the record written by save call sid
\* (0: by the previous session) was encrypted.
WriterPass(sid) == IF sid = 0 THEN "k1" ELSE saveLog[sid].pass

\* The last result is that of an unlock which read the record written by a
\* save of two arrays that overlapped with no other save.
UnlockAfterSave(K) ==
    /\ ret.fn = "unlock"
    /\ ret.pass = K
    /\ ret.wsid >= 1
    /\ saveLog[ret.wsid].activeNotes.arr
    /\ saveLog[ret.wsid].trashedNotes.arr
    /\ \E i \in 1..Len(writeLog) : writeLog[i].sid = ret.wsid /\ writeLog[i].alone

\* b is a after JSON re-serialisation: the same notes in the same order,
\* except that a property whose value was undefined is missing.
SameAfterJson(a, b) ==
    /\ Len(a) = Len(b)
    /\ \A i \in 1..Len(a) :
          /\ a[i].id = b[i].id /\ a[i].title = b[i].title /\ a[i].body = b[i].body
          /\ a[i].createdAt = b[i].createdAt /\ a[i].updatedAt = b[i].updatedAt
          /\ a[i].pinned = b[i].pinned /\ a[i].tags = b[i].tags
          /\ b[i].deletedAt = (IF a[i].deletedAt = Undef THEN Absent ELSE a[i].deletedAt)
          /\ b[i].reminderAt = (IF a[i].reminderAt = Undef THEN Absent ELSE a[i].reminderAt)

C2_WrongKeyRejected ==
    (ret.fn = "unlock" /\ ret.wsid >= 0 /\ WriterPass(ret.wsid) # ret.pass)
    => /\ ~ret.ok
       /\ ret.err = "AuthenticationError"
       /\ ret.activeNotes = <<>>
       /\ ret.trashedNotes = <<>>

\* An unlock with the other passphrase failed on a record written by a save call.
C2_Witness ==
    /\ ret.fn = "unlock"
    /\ ret.wsid >= 1
    /\ WriterPass(ret.wsid) # ret.pass
    /\ ~ret.ok

\* The collection a legacy item holds.
LegacyCollection(item) == IF item.kind = "array" THEN item.val ELSE <<>>

\* createEncryptedVaultFromLegacy has returned, it was called with legacy data
\* and no record present, and its record is still the persisted one.
MigratedFromLegacy ==
    /\ ret.fn = "migrate"
    /\ ret.ok
    /\ ret.wsid = -1
    /\ (ret.lgN.kind # "none" \/ ret.lgT.kind # "none")
    /\ WriterNow = ret.sid

\* C3 as stated: after a migration called with legacy data and no record, a
\* record exists, no legacy item exists, and unlocking with the same
\* passphrase returns the original legacy active and trashed collections.
C3_MigrationSafety ==
    MigratedFromLegacy
    => /\ hasEncryptedPayload
       /\ ~hasLegacyUnencryptedNotes
       /\ UnlockResult(ret.pass, enc.val).ok
       /\ UnlockResult(ret.pass, enc.val).activeNotes = LegacyCollection(ret.lgN)
       /\ UnlockResult(ret.pass, enc.val).trashedNotes = LegacyCollection(ret.lgT)

\* C4: a step removes a legacy item only when the record of the running
\* migration is already persisted, and the step in which a migration fails
\* leaves both legacy items as they are and hands the error to the caller.
C4_NeverDeleteBeforeWrite ==
    [][ /\ (legacyNotes' # legacyNotes \/ legacyTrash' # legacyTrash)
           => /\ pc.stage = "clear"
              /\ enc.kind = "json"
              /\ WriterNow = pc.sid
              /\ base64ToBytes(enc.val.salt) = saveLog[pc.sid].salt
        /\ (ret' # ret /\ ret'.fn = "migrate" /\ ~ret'.ok)
           => /\ legacyNotes' = legacyNotes
              /\ legacyTrash' = legacyTrash
              /\ ret'.err # "" ]_vars

\* The record of a migration is persisted and the legacy items are still there.
C4_Witness ==
    /\ pc.stage = "clear"
    /\ hasEncryptedPayload
    /\ legacyNotes.kind = "array"
    /\ legacyTrash.kind = "array"

\* C6: the persisted record is the one of the save that finished last.
C6_LastCompletionWins ==
    writeLog # <<>>
    => LET e == saveLog[writeLog[Len(writeLog)].sid]
       IN /\ enc.kind = "json"
          /\ base64ToBytes(enc.val.salt) = e.salt
          /\ base64ToBytes(enc.val.iv) = e.iv
          /\ decryptError(e.pass, enc.val) = ""
          /\ decryptPayloadToJson(e.pass, enc.val) = e.json

\* Two saves were in flight together and the one called first finished last.
C6_Witness ==
    /\ Len(writeLog) = 2
    /\ writeLog[2].sid < writeLog[1].sid
    /\ ~writeLog[1].alone
    /\ base64ToBytes(enc.val.salt) = saveLog[writeLog[2].sid].salt

\* C10: no two saves persisted records with the same (salt, iv) pair.
C10_SaltIvFresh ==
    \A i, j \in 1..Len(writeLog) :
        i # j => <<writeLog[i].salt, writeLog[i].iv>> # <<writeLog[j].salt, writeLog[j].iv>>

\* Two saves of the same plaintext under the same passphrase were persisted.
C10_Witness ==
    /\ Len(writeLog) >= 2
    /\ saveLog[writeLog[1].sid].pass = saveLog[writeLog[2].sid].pass
    /\ saveLog[writeLog[1].sid].json = saveLog[writeLog[2].sid].json
    /\ writeLog[1].sid # writeLog[2].sid

\* ============================================= properties of the application
\* C5 as stated: a doUnlock started with legacy data and no record migrates:
\* it gets the legacy collections back and has created the record.
C5_UnlockMigratesLegacy ==
    (ret.caller = "app" /\ ret.wsid = -1
        /\ (ret.lgN.kind # "none" \/ ret.lgT.kind # "none"))
    => /\ ret.fn = "migrate"
       /\ ret.ok => /\ ret.activeNotes = LegacyCollection(ret.lgN)
                    /\ ret.trashedNotes = LegacyCollection(ret.lgT)
                    /\ \E i \in 1..Len(writeLog) : writeLog[i].sid = ret.sid

\* History: the save calls that ended with an error.
FailedSaves ==
    {sid \in 1..Len(saveLog) :
        /\ \A c \in calls : ~(c.kind = "save" /\ c.id = sid)
        /\ \A i \in 1..Len(writeLog) : writeLog[i].sid # sid}

\* No store call is in flight and every save so far has ended without error.
Quiescent ==
    /\ saveLog # <<>>
    /\ calls = {}
    /\ pc.stage = "idle"
    /\ FailedSaves = {}

\* The persisted record decrypts with passphrase K to the document of the
\* collections act and tr.
DecryptsTo(K, act, tr) ==
    /\ enc.kind = "json"
    /\ decryptError(K, enc.val) = ""
    /\ decryptPayloadToJson(K, enc.val) = VaultJson(Arr(act), Arr(tr))

\* A step that changes a collection of an unlocked session starts a save of
\* the new collections under the session passphrase.
ChangeStartsSave ==
    (isUnlocked' /\ (notes' # notes \/ trashedNotes' # trashedNotes))
    => /\ Len(saveLog') = Len(saveLog) + 1
       /\ saveLog'[Len(saveLog')].pass = passphrase'
       /\ saveLog'[Len(saveLog')].activeNotes = Arr(notes')
       /\ saveLog'[Len(saveLog')].trashedNotes = Arr(trashedNotes')
       /\ \E c \in calls' : c.kind = "save" /\ c.id = Len(saveLog')

\* The collections the last started save captured: the latest ones in memory.
LatestSave == saveLog[Len(saveLog)]

\* C7 as stated: every change starts a save, and once every save has ended
\* without error the record decrypts to the latest in-memory collections.
C7_PersistsLatest ==
    /\ [][ChangeStartsSave]_vars
    /\ [](Quiescent =>
            /\ DecryptsTo(LatestSave.pass, LatestSave.activeNotes.items,
                          LatestSave.trashedNotes.items)
            /\ isUnlocked => DecryptsTo(passphrase, notes, trashedNotes))

\* C7 amended: every change starts a save, and once every save has ended
\* without error the record decrypts to the collections captured by the save
\* that ended last; these are the latest in-memory collections when the save
\* started last is also the one that ended last.
C7_PersistsLastCompleted ==
    /\ [][ChangeStartsSave]_vars
    /\ [](Quiescent =>
            LET w == saveLog[writeLog[Len(writeLog)].sid]
            IN /\ DecryptsTo(w.pass, w.activeNotes.items, w.trashedNotes.items)
               /\ writeLog[Len(writeLog)].sid = Len(saveLog)
                  => /\ DecryptsTo(LatestSave.pass, LatestSave.activeNotes.items,
                                   LatestSave.trashedNotes.items)
                     /\ isUnlocked => DecryptsTo(passphrase, notes, trashedNotes))

\* A note was changed in an unlocked session, all saves have ended in the
\* order they were started and the session is still unlocked.
C7_Witness ==
    /\ Quiescent
    /\ isUnlocked
    /\ Len(writeLog) >= 2
    /\ writeLog[Len(writeLog)].sid = Len(saveLog)
    /\ notes # <<>>
    /\ DecryptsTo(passphrase, notes, trashedNotes)

\* The step in which the save awaited by a lockNow ends and lockNow clears
\* the memory.
LockEnds == \E c \in calls : c.kind = "save" /\ c.caller = "lock" /\ c \notin calls'

\* The step in which lockNow is called.
LockBegins == \E c \in calls' : c.kind = "save" /\ c.caller = "lock" /\ c \notin calls

C9_NoteIdsUnique ==
    isUnlocked
    => Cardinality(NoteIds(notes) \cup NoteIds(trashedNotes)) = Len(notes) + Len(trashedNotes)

\* ====================================== properties of a record read back
\* The record save call sid (0: the previous session) persisted, up to its
\* time stamp.
WrittenPayload(sid) ==
    IF sid = 0 THEN OldPayload
    ELSE encryptJsonToPayload(saveLog[sid].pass, saveLog[sid].json, saveLog[sid].salt,
                              saveLog[sid].iv, 0)

\* The properties in which the record an unlock read differs from the one the
\* store wrote last.
ChangedFields(p, sid) ==
    {f \in {"schema", "salt", "iv", "data"} : p[f] # WrittenPayload(sid)[f]}

\* The record authenticates under the passphrase.
Authenticates(K, p) ==
    AesGcmVerifies(deriveAesKeyFromPassphrase(K, base64ToBytes(p.salt)),
                   base64ToBytes(p.iv), base64ToBytes(p.data))

\* The plaintext is a vault document.
IsVaultPayload(doc) == DOMAIN doc = {"schemaVersion", "activeNotes", "trashedNotes"}

\* The last result is that of an unlock that failed with an error of set errs
\* and returned no collections.
UnlockFailedWith(errs) ==
    /\ ~ret.ok
    /\ ret.err \in errs
    /\ ret.activeNotes = <<>>
    /\ ret.trashedNotes = <<>>

UnlockWithRightKey == ret.fn = "unlock" /\ ret.wsid >= 0 /\ ret.pass = WriterPass(ret.wsid)

\* The last result is that of an unlock of an unchanged record with a
\* passphrase other than the one it was saved under.
UnlockWithWrongKey ==
    /\ ret.fn = "unlock" /\ ret.wsid >= 0 /\ ret.pass # WriterPass(ret.wsid)
    /\ ChangedFields(ret.read, ret.wsid) = {}

SaveFails == \E c \in calls \ calls' : c.kind = "save" /\ writeLog' = writeLog

\* C13 as stated: the step in which a save fails hands the error to the
\* caller or shows it to the user, and does not discard the collections in
\* memory without doing so.
C13_SaveFailuresSurface ==
    [][SaveFails => \/ ret' # ret /\ ret'.err # ""
                    \/ error' = StorageFullMessage
                    \/ unlockError' = UnlockFailedMessage]_vars

\* ================================================ properties of an empty vault
\* C14: an unlock called when neither a record nor a legacy item is persisted
\* returns at once, successfully, with two empty collections, and writes
\* nothing.
C14_EmptyVaultUnlocks ==
    [][(unlockCount' = unlockCount + 1 /\ ~hasEncryptedPayload /\ ~hasLegacyUnencryptedNotes)
       => /\ ret'.fn = "unlock"
          /\ ret'.ok
          /\ ret'.activeNotes = <<>>
          /\ ret'.trashedNotes = <<>>
          /\ \A c \in calls' \ calls : c.kind # "decrypt"
          /\ storeVars' = storeVars]_vars

\* An unlock with the second passphrase returned the empty vault while
\* nothing is persisted.
C14_Witness ==
    /\ ret.fn = "unlock"
    /\ ret.pass = "k2"
    /\ ret.ok
    /\ ret.wsid = -1
    /\ ~hasEncryptedPayload
    /\ ~hasLegacyUnencryptedNotes
    /\ ret.activeNotes = <<>>

\* ===================================================== properties of import
\* The last note of s with the given id.
LastWithId(s, id) ==
    s[CHOOSE i \in 1..Len(s) : s[i].id = id /\ \A j \in (i + 1)..Len(s) : s[j].id # id]

\* The notes of s.
Range(s) == {s[i] : i \in 1..Len(s)}

\* After the step, collection after holds the incoming version of every
\* incoming id and every note of before whose id is not incoming at all.
MergedIncomingWins(before, after, incoming, allIncomingIds) ==
    /\ \A id \in NoteIds(incoming) :
          /\ LastWithId(incoming, id) \in Range(after)
          /\ Cardinality({i \in 1..Len(after) : after[i].id = id}) = 1
    /\ \A n \in Range(before) : n.id \notin allIncomingIds => n \in Range(after)

VaultNoteIds ==
    IF ~hasEncryptedPayload THEN {}
    ELSE LET doc == base64ToBytes(enc.val.data).pt
         IN NoteIds(doc.activeNotes) \cup NoteIds(doc.trashedNotes)

\* Reminder r has a pending timer in the given reminder state.
Armed(r, pending) == \E t \in pending : t.noteId = r.noteId /\ t.remindAt = r.remindAt

\* The step neither sets nor clears a reminder and starts no timer callback.
NoReminderCall == remRet' = remRet /\ firing' = NoReminder

\* C16: a step that locks the application, reloads it while it is unlocked,
\* or unlocks it keeps every persisted reminder whose note is in the vault
\* and whose time is still in the future, and an unlock with notification
\* permission granted leaves it armed.
C16_RemindersSurviveReload ==
    [][(NoReminderCall /\ isUnlocked' # isUnlocked)
       => \A r \in Range(reminders) :
             (r.noteId \in VaultNoteIds' /\ r.remindAt > now')
             => /\ r \in Range(reminders')
                /\ (isUnlocked' /\ permission = "granted") => Armed(r, timeouts')]_vars

\* Every pending timer is the one whose handle the module holds, and it is
\* the timer of the reminder persisted for its note.
TimersMatchReminders ==
    \A t \in timeouts :
        /\ [noteId |-> t.noteId, tid |-> t.tid] \in scheduledTimeouts
        /\ [noteId |-> t.noteId, remindAt |-> t.remindAt] \in Range(reminders)

OnePerNote ==
    \A id \in ReminderNoteIds \cup ReminderIds(reminders) \cup {t.noteId : t \in timeouts} :
        /\ Cardinality({t \in timeouts : t.noteId = id}) <= 1
        /\ Cardinality({i \in 1..Len(reminders) : reminders[i].noteId = id}) <= 1

\* C17: no note has more than one pending timer or more than one persisted
\* reminder, a pending timer is always the timer of the persisted reminder
\* (so a timer that was replaced is not pending and cannot fire), and a
\* scheduleReminder call that does not throw leaves the note with the new
\* time persisted and no timer for another time.
C17_OneReminderPerNote ==
    /\ [](OnePerNote /\ TimersMatchReminders)
    /\ [][(remRet' # remRet /\ remRet'.fn = "scheduleReminder" /\ remRet'.err = "")
          => /\ ReminderTimeOf(reminders', remRet'.noteId) = remRet'.remindAt
             /\ \A t \in timeouts' :
                   t.noteId = remRet'.noteId => t.remindAt = remRet'.remindAt]_vars

\* scheduleReminder replaced the reminder of n1 for time MaxClock by one for
\* a later time; the second timer created is the only one pending.
C17_Witness ==
    /\ remRet.fn = "scheduleReminder"
    /\ ReminderTimeOf(remRet.before, "n1") = MaxClock
    /\ remRet.remindAt = MaxClock + 1
    /\ reminders = <<[noteId |-> "n1", remindAt |-> MaxClock + 1]>>
    /\ timerCount = 2
    /\ \A t \in timeouts : t.tid = 2
    /\ timeouts # {}

\* C18: a scheduleReminder call whose time is not a finite number or has
\* already passed throws an error and changes neither the persisted map nor
\* the pending timers.
C18_InvalidTimeRejected ==
    [][(/\ remRet' # remRet
        /\ remRet'.fn = "scheduleReminder"
        /\ (~IsFinite(remRet'.remindAt) \/ remRet'.remindAt < now))
       => /\ remRet'.err # ""
          /\ reminders' = reminders
          /\ timeouts' = timeouts]_vars

\* The active note of reminder r carries the time of r, as
\* setReminderForSelectedNote left it.
NoteCarries(r, ns) ==
    \E i \in 1..Len(ns) : ns[i].id = r.noteId /\ ns[i].reminderAt = r.remindAt

\* C19: with permission granted, a reminder set for a future time stays
\* persisted with its timer pending through every step that neither sets
\* nor clears a reminder nor touches its note, runs of
\* rescheduleAllReminders included, until its timer fires; the callback
\* then removes the persisted entry and displays one notification.
C19_FiresExactlyOnce ==
    [][/\ (NoReminderCall /\ permission = "granted" /\ permission' = "granted")
          => \A r \in Range(reminders) :
                (Armed(r, timeouts) /\ NoteCarries(r, notes) /\ NoteCarries(r, notes'))
                => r \in Range(reminders') /\ Armed(r, timeouts')
       /\ (firing = NoReminder /\ firing' # NoReminder)
          => firing'.noteId \notin ReminderIds(reminders')
       /\ (firing # NoReminder /\ permission = "granted")
          => firing' = NoReminder /\ shown' = Append(shown, firing)]_vars

C21_ArmedOnlyWithPermission ==
    [][/\ (timeouts' \ timeouts # {}) => permission = "granted"
       /\ (NoReminderCall /\ permission # "granted" /\ reminders' # reminders)
          => \A r \in Range(reminders) :
                (r.remindAt > now /\ r.noteId \in NoteIds(notes') \cup NoteIds(trashedNotes'))
                => r \in Range(reminders') /\ ~Armed(r, timeouts')]_vars

C24_StorageFailuresCaught == remRet.err # "QuotaExceededError"

\* ------------------------------------------- properties of the version history
\* The texts of the model that differ in trailing white space only.
TrailingVariants == {{"a", "a "}, {"", " "}, {"x", "x\n"}}

SameButTrailingSpace(a, b) == a = b \/ \E c \in TrailingVariants : {a, b} \subseteq c

\* The snapshots of a note, as getNoteSnapshots gives them, before and after a step.
Stored(noteId) == getNoteSnapshots(history, noteId)
StoredAfter(noteId) == getNoteSnapshots(history', noteId)

C26_AtMostCap ==
    [][(histRet'.fn = "addNoteSnapshot" /\ histRet'.noteId # "")
       => Len(StoredAfter(histRet'.noteId)) <= histRet'.cap]_vars

IsNewestFirst(snaps) ==
    \A i, j \in 1..Len(snaps) : i < j => snaps[i].createdAt >= snaps[j].createdAt

\* C26, amended: a call of addNoteSnapshot with a cap that stores a snapshot
\* leaves the note with at most max(1, cap) snapshots, newest first: the new
\* one and the most recent of those it had, the oldest being dropped.
C26_CapKeepsNewest ==
    [][(histRet'.fn = "addNoteSnapshot" /\ histRet'.ret # NoSnap /\ history' # history)
       => LET before == Stored(histRet'.noteId)
              after == StoredAfter(histRet'.noteId)
              m == IF histRet'.cap > 1 THEN histRet'.cap ELSE 1
          IN /\ Len(after) = (IF Len(before) + 1 < m THEN Len(before) + 1 ELSE m)
             /\ IsNewestFirst(after)
             /\ \E i \in 1..Len(after) : after[i] = histRet'.ret
             /\ SelectSeq(after, LAMBDA s : s # histRet'.ret)
                  = SubSeq(before, 1, Len(after) - 1)]_vars

\* The sixth snapshot was stored with cap 1 and is the only one left.
C26_Witness ==
    /\ histRet.fn = "addNoteSnapshot" /\ histRet.ret # NoSnap
    /\ histRet.cap = 1
    /\ snapCount = histRet.cap + 5
    /\ Stored("n1") = <<histRet.ret>>
    /\ histRet.ret.id = createSnapshotId(6)

\* The note has the content of the snapshot, but for trailing white space.
SameContent(note, snap) ==
    SameButTrailingSpace(note.title, snap.title) /\ SameButTrailingSpace(note.body, snap.body)

HistoryCallOf(fn) ==
    histRet'.fn = fn /\ (histRet' # histRet \/ history' # history)

StoredIds(noteId) == {Stored(noteId)[i].id : i \in 1..Len(Stored(noteId))}

\* C28: clearNoteSnapshots for a note that has no history item and
\* deleteNoteSnapshot for a snapshot id the note does not have throw nothing
\* and leave every history item as it is, and a second call of either leaves
\* what the first left.
C28_ClearDeleteIdempotent ==
    [][/\ (HistoryCallOf("clearNoteSnapshots")
             /\ StoredHistory(history, histRet'.noteId) = NoHistory)
          => history' = history /\ histRet'.err = ""
       /\ (HistoryCallOf("deleteNoteSnapshot") /\ histRet'.ret.id \notin StoredIds(histRet'.noteId))
          => history' = history /\ histRet'.err = ""
       /\ HistoryCallOf("clearNoteSnapshots")
          => clearNoteSnapshots(history', histRet'.noteId) = history'
       /\ HistoryCallOf("deleteNoteSnapshot")
          => deleteNoteSnapshot(history', histRet'.noteId, histRet'.ret.id) = history']_vars

\* A stored element that is a snapshot: an object with a non-empty string
\* as id and a finite createdAt other than 0.
WellFormed(e) ==
    e.createdAt # NotObject /\ e.id \notin {NotString, ""} /\ e.createdAt > 0

WellFormedOf(item) ==
    IF item.kind = "array"
    THEN {CoerceSnap(item.items[i]) : i \in {j \in 1..Len(item.items) : WellFormed(item.items[j])}}
    ELSE {}

\* C29: whatever a history item holds (nothing, a text that is not JSON, a
\* value that is not an array, an array with malformed elements),
\* getNoteSnapshots throws nothing and returns the well-formed snapshots of
\* the item, each once, the newer before the older.
C29_ReadSurvivesCorruption ==
    /\ histRet.fn = "getNoteSnapshots" => histRet.err = ""
    /\ \A id \in {"n1", "n2", ""} :
          LET out == getNoteSnapshots(history, id)
              item == StoredHistory(history, id)
          IN /\ IsNewestFirst(out)
             /\ {out[i] : i \in 1..Len(out)} = (IF id = "" THEN {} ELSE WellFormedOf(item))
             /\ Len(out) = Cardinality({j \in 1..Len(item.items) : WellFormed(item.items[j])})

\* getNoteSnapshots was called for the note whose item holds the array with
\* malformed elements, of which two are snapshots, the later one the newer.
C29_Witness ==
    /\ histRet.fn = "getNoteSnapshots" /\ histRet.noteId = "n1"
    /\ StoredHistory(history, "n1") = HistoryItem("array", DamagedHistory)
    /\ Stored("n1") = <<Snap("p4", 2, "b", ""), Snap("p3", 1, "", " ")>>

\* ------------------------------------------------ properties of the edits
\* The note with the id in a collection, when there is one.
NoteOf(coll, id) == coll[FindIndex(coll, id, 1)]

\* C30: a step that changes the title, body, tags or pinned flag of an active
\* note leaves the note with the time of the step as updatedAt.
C30_EditsBumpUpdatedAt ==
    [][\A id \in NoteIds(notes) \cap NoteIds(notes') :
          (\/ NoteOf(notes, id).title # NoteOf(notes', id).title
           \/ NoteOf(notes, id).body # NoteOf(notes', id).body
           \/ NoteOf(notes, id).tags # NoteOf(notes', id).tags
           \/ NoteOf(notes, id).pinned # NoteOf(notes', id).pinned)
          => NoteOf(notes', id).updatedAt = now]_vars

\* ---------------------------------------------- properties of the session
\* The step ends an unlock attempt of the application in its catch block:
\* the decryption, or the save of the migration, it awaited threw.
UnlockAttemptFails ==
    /\ \E c \in calls \ calls' :
          \/ c.kind = "decrypt" /\ c.caller = "app"
          \/ c.kind = "save" /\ c.caller = "migrate_app"
    /\ pc'.stage = "idle"
    /\ ~ret'.ok

UnlockAttemptSucceeds ==
    \/ /\ \E c \in calls \ calls' : c.kind = "decrypt" /\ c.caller = "app"
       /\ ret'.ok
    \/ pc.stage = "clear" /\ pc.caller = "migrate_app" /\ pc'.stage = "idle"

\* C33 as stated: no doUnlock starts while unlockBusy is set, and an unlock
\* attempt that sets the collections does so in a session that is still
\* locked, never in one that another attempt has unlocked.
C33_UnlockExclusive ==
    [][/\ unlockCount' > unlockCount => ~unlockBusy
       /\ UnlockAttemptSucceeds => ~isUnlocked]_vars

\* C32 as stated: in every state in which the session is locked the
\* passphrase held in memory is empty and so are the active and the trashed
\* collection; no note is selected, so the editor and the history list have
\* nothing to show.
C32_LockedHoldsNoSecrets ==
    ~isUnlocked
    => /\ passphrase = ""
       /\ notes = <<>>
       /\ trashedNotes = <<>>
       /\ selectedId = ""

\* C34 as stated: a step that starts no unlock and begins and ends in a
\* locked session changes neither collection and calls no saveEncryptedNotes.
C34_NothingMutatesWhileLocked ==
    [][(~isUnlocked /\ ~isUnlocked' /\ unlockCount' = unlockCount)
       => UNCHANGED <<notes, trashedNotes, saveLog>>]_vars

\* ------------------------------------------------ properties of the autosave
\* The step ran an autosave callback that wrote into a note.
AutosaveWrote == autosaved'.count > autosaved.count /\ notes' # notes

\* C35: at most one autosave timer is pending, and an autosave callback that
\* changes the collection was armed for the note that is selected in the
\* Notes view and for the draft the editor holds when it runs; it changes
\* that note only, to the trimmed draft. A callback armed for another note or
\* another draft changes nothing.
C35_NoStaleAutosave ==
    /\ [](Cardinality(autosaveTimers) <= 1)
    /\ [][AutosaveWrote
          => /\ view = "notes"
             /\ autosaved'.noteId = selectedId
             /\ autosaved'.title = draft.title
             /\ autosaved'.body = draft.body
             /\ \A id \in NoteIds(notes) :
                   LET old == NoteOf(notes, id)
                       new == NoteOf(notes', id)
                   IN IF id = selectedId
                      THEN new = [old EXCEPT !.title = safeTrimEnd(draft.title),
                                             !.body = safeTrimEnd(draft.body),
                                             !.updatedAt = now]
                      ELSE new = old]_vars

\* An autosave callback has written the typed title into the selected note
\* and no timer is left.
C35_Witness ==
    /\ autosaved.count > 0
    /\ autosaved.noteId = selectedId
    /\ activeSelectedNote # 0
    /\ notes[activeSelectedNote].title = "a"
    /\ notes[activeSelectedNote].title = safeTrimEnd(autosaved.title)
    /\ autosaveTimers = {}

\* ---------------------------------------------------- properties of the trash
\* The ids a step of an unlocked session takes out of a collection.
LeavesActive == IF isUnlocked /\ isUnlocked' THEN NoteIds(notes) \ NoteIds(notes') ELSE {}
LeavesTrash ==
    IF isUnlocked /\ isUnlocked' THEN NoteIds(trashedNotes) \ NoteIds(trashedNotes') ELSE {}

\* What trash and restore keep of a note.
KeptFields(n) ==
    [id |-> n.id, title |-> n.title, body |-> n.body, tags |-> n.tags,
     createdAt |-> n.createdAt]

\* C36 as stated: a note taken out of the active collection is in the trash
\* afterwards, with deletedAt set to the time of the step, and not active; a
\* note taken out of the trash while the active collection changes is active
\* afterwards, without deletedAt, and not in the trash; both keep id, title,
\* body, tags and createdAt. A note taken out of the trash while the active
\* collection stays as it is, is in neither collection afterwards.
C36_TrashRoundTrip ==
    [][/\ \A id \in LeavesActive :
             /\ id \in NoteIds(trashedNotes')
             /\ NoteOf(trashedNotes', id).deletedAt = now
             /\ KeptFields(NoteOf(trashedNotes', id)) = KeptFields(NoteOf(notes, id))
       /\ \A id \in LeavesTrash :
             IF notes' # notes
             THEN /\ id \in NoteIds(notes')
                  /\ NoteOf(notes', id).deletedAt = Undef
                  /\ KeptFields(NoteOf(notes', id)) = KeptFields(NoteOf(trashedNotes, id))
             ELSE id \notin NoteIds(notes')]_vars

\* C37 as stated: a step of moveSelectedNoteToTrash or of
\* permanentlyDeleteSelectedTrashNote in which the dialog is declined leaves
\* both collections, the persisted reminders and the armed timers as they were.
C37_DeclineHasNoEffect ==
    [][(MoveSelectedNoteToTrash(FALSE) \/ PermanentlyDeleteSelectedTrashNote(FALSE))
          => UNCHANGED <<notes, trashedNotes, reminders, timeouts, scheduledTimeouts>>]_vars

\* The note ids a reminder is persisted or a timer is armed for.
RemindedIds == ReminderIds(reminders) \cup {t.noteId : t \in timeouts}

\* C38 as stated: when the effects of a handler have run, every note id with
\* a persisted reminder or an armed timer is in the active collection and not
\* in the trash, and a timer callback runs for such a note only.
C38_NoReminderForTrashedOrPurged ==
    /\ pc.stage = "idle" =>
          \A id \in RemindedIds : id \in NoteIds(notes) \ NoteIds(trashedNotes)
    /\ pc.stage = "notify" => firing.noteId \in NoteIds(notes) \ NoteIds(trashedNotes)

\* ------------------------------------- properties of timers and their entries
\* C39: every armed timer belongs to a note that has a persisted entry, and
\* the remindAt of that entry is the time the timer was armed for, whether the
\* writes of the calls before succeeded or failed.
C39_ArmedTimerHasEntry ==
    \A t \in timeouts :
        /\ t.noteId \in ReminderIds(reminders)
        /\ ReminderTimeOf(reminders, t.noteId) = t.remindAt

\* A scheduleReminder with another time has failed on its write while a timer
\* of the note was armed: the timer and its entry are those of before.
C39_Witness ==
    /\ remRet.fn = "scheduleReminder"
    /\ remRet.err = "QuotaExceededError"
    /\ \E t \in timeouts :
          /\ t.noteId = remRet.noteId
          /\ t.remindAt # remRet.remindAt
          /\ ReminderTimeOf(reminders, t.noteId) = t.remindAt
====
